---- MODULE Spec2Model ----
(***************************************************************************)
(* Link-layer protocol engine of QBolapp: the retry manager                *)
(* (AckManagerThread), the router's CTRL dispatch (RouterThread) and the   *)
(* file assembler (FileAssemblerManagerThread) of src/core/messaging.py,   *)
(* with the frame constructor of src/core/frame.py.                        *)
(*                                                                         *)
(* Time.  The code only ever compares differences time.time() - stamp      *)
(* with a constant.  The clock is therefore kept normalised: time.time()   *)
(* is always 0 (TimeNow) and the passing of d seconds shifts every stored  *)
(* time stamp by -d (Tick).  A stamp saturates one second below the        *)
(* largest constant it is compared with, where every test already agrees.  *)
(***************************************************************************)
EXTENDS Integers, Sequences, FiniteSets, TLC

VARIABLES
    esperando_ack,        \* AckManagerThread._esperando_ack: insertion-ordered dict, as a sequence of entries
    cola_saliente,        \* outbound queue (App.cola_saliente), a sequence of frames
    cola_notificaciones,  \* notification queue (App.cola_notificaciones)
    sweep_slept,          \* seconds the sweeper has slept since its last scan, saturating at CHECK_INTERVAL
    active_transfers,     \* FileAssemblerManagerThread._active_transfers: tid -> info
    files,                \* download directory: path -> bytes written
    asm_last_cleanup,     \* FileAssemblerManagerThread.last_cleanup (normalised stamp)
    last,                 \* history: the operation of the last step
    llamada,              \* history: the call made in the last step (function, key, return value)
    puestos,              \* history: clave -> times a registered frame of that key was put on cola_saliente since its registration
    fallos,               \* history: clave -> failure notifications emitted for that key since its registration
    resultado,            \* history: clave -> "none" | "pending" | "acked" | "failed"
    n_reg, n_ack, n_exp,  \* history: accepted registrations, matched ACKs, entries removed by exhaustion
    transcurrido,         \* history: clave -> seconds since its accepted registration while it is pending
    peers,                \* OnlineManager.diccionario_usuarios (App.peers): mac -> [username, last_seen]
    om_last_cleanup,      \* OnlineManager.last_cleanup (normalised stamp)
    om_slept,             \* seconds the presence loop has slept since its last iteration, saturating at HELLO_INTERVAL
    corriendo,            \* the workers' running flags: worker -> BOOLEAN
    app_running,          \* App.running
    stop_pc,              \* position of App.stop: <<phase, index of the worker in Orden>>
    vivos,                \* the workers whose thread has not ended
    sender_pc,            \* SendingThread.run: "loop" at the loop test, "get" inside cola_saliente.get
    fragment_queue,       \* App.fragment_queue, as far as the shutdown sentinel goes
    my_socket,            \* MySocket.my_socket is not None
    join_slept,           \* seconds the current Thread.join has waited
    senalados,            \* history: the workers whose stop() App.stop has called, in order
    unidos,               \* history: the joins App.stop has finished, in order, each with its outcome
    n_offline,            \* history: offline beacons put on cola_saliente
    enviados,             \* history: frames the sender wrote to the socket
    cod_frame,            \* codec: the frame handed to to_bytes
    cod_raw,              \* codec: the bytes on the link
    cod_bit,              \* codec: the bit of cod_raw that was inverted on the link, -1 when none
    cod_result,           \* codec: what from_bytes returned or raised for cod_raw
    escrito,              \* the bytes of the sender's last socket write
    sock_fd,              \* the socket object's descriptor is open (s.close() has not run)
    n_close_calls,        \* calls of MySocket.close so far
    tx_pc,                \* send_frame: "idle", or "ref" once it holds the socket reference
    rx_pc,                \* receive_frame: "idle", "ref" once it holds the reference, "recv" inside s.recv
    tx_out,               \* how the last step of send_frame ended: "pending", "sent" or the ConnectionError raised
    rx_out,               \* how the last step of receive_frame ended: "pending", "data", "timeout" or the ConnectionError raised
    n_close,              \* history: times s.close() ran on the socket object
    n_tx,                 \* history: frames s.send transmitted
    next_transfer_id,     \* AckManagerThread._next_transfer_id
    fs_pc,                \* start_transfer: "idle", "loop" inside the loop over the fragments, "done" after the return
    fs_transfer_id,       \* start_transfer: transfer_id
    fs_filesize,          \* start_transfer: filesize
    fs_total_frags,       \* start_transfer: total_frags
    fs_reliable,          \* start_transfer: reliable
    fs_fragment_no,       \* start_transfer: fragment_no, the loop variable
    fs_pos,               \* start_transfer: position of f in the file
    fs_emitidos,          \* history: the frames the transfer has put on cola_saliente, in order
    recibido,             \* what Frame.from_bytes gives the peer's listener for the bytes last written
    primero,              \* history: clave -> the bytes of the first socket write of that key's frame
    lock_owner,           \* AckManagerThread._lock: the thread inside `with self._lock`, "none" when it is free
    reg_pc,               \* registrar_mensaje: "idle", "insert" before line 120, "put" before line 121
    reg_in,               \* registrar_mensaje: its arguments <<frame, descripcion>>
    ack_pc,               \* handle_ack: "idle", "del" once the key was found
    ack_clave,            \* handle_ack: clave
    sw_pc,                \* AckManagerThread.run: "idle" in the sleep, "acquire" before the lock, "scan", "delete"
    sw_i,                 \* AckManagerThread.run: position of the scan in the table
    sw_expired,           \* AckManagerThread.run: expired_claves
    cola_entrante,        \* inbound queue (App.cola_entrante), a sequence of frames
    app_msg_queue,        \* App.app_msg_queue
    hear_pc,              \* HearingThread.run: "loop" at the loop test, "call" inside and after receive_frame, "ended"
    hear_raw,             \* HearingThread.run: raw_data of the last buffer received
    hear_dec,             \* HearingThread.run: what Frame.from_bytes returned or raised for raw_data
    oidos,                \* history: the number of frames the listener has put on cola_entrante
    vigente,              \* history: mac -> seconds since its last online beacon ("user|online") with no offline beacon since, -1 when none
    alloc_pc,             \* get_next_transfer_id: caller -> "idle", "wait" at the lock, "incr" before the assignment, "ret" before the return
    ids,                  \* history: the values get_next_transfer_id has returned, in the order of the returns
    acuses,               \* the CTRL frames the receiving host has answered with, on their way to the sender's router
    registrados,          \* start_transfer on the sending host: the fragments it has registered
    acusados,             \* history: the keys for which handle_ack returned True
    fracasos,             \* history: failure notifications the sweeper has emitted
    completadas,          \* history: the transfer ids for which "transfer completed" was notified
    om_pc,                \* OnlineManager.run: "sleep" in time.sleep, "put" after the loop test, "ended"
    omstop_pc             \* OnlineManager.stop: "idle", "put" once running is cleared, "done" after the put

ackVars == <<esperando_ack, cola_saliente, cola_notificaciones, sweep_slept>>
asmVars == <<active_transfers, files, asm_last_cleanup>>
ackHist == <<puestos, fallos, resultado, n_reg, n_ack, n_exp, transcurrido>>
presVars == <<peers, om_last_cleanup, om_slept>>
presHist == <<vigente>>
stopVars == <<app_running, stop_pc, vivos, sender_pc, fragment_queue, my_socket, join_slept>>
stopHist == <<senalados, unidos, n_offline, enviados>>
codVars == <<cod_frame, cod_raw, cod_bit, cod_result>>
wireVars == <<escrito, recibido, primero>>
sockVars == <<sock_fd, n_close_calls, tx_pc, rx_pc, tx_out, rx_out>>
sockHist == <<n_close, n_tx>>
fsVars == <<next_transfer_id, fs_pc, fs_transfer_id, fs_filesize, fs_total_frags, fs_reliable,
            fs_fragment_no, fs_pos, fs_emitidos>>
lockVars == <<lock_owner, reg_pc, reg_in, ack_pc, ack_clave, sw_pc, sw_i, sw_expired>>
routeVars == <<cola_entrante, app_msg_queue>>
listenVars == <<hear_pc, hear_raw, hear_dec>>
haltVars == <<oidos>>
allocVars == <<alloc_pc, ids>>
e2eVars == <<acuses, registrados, acusados, fracasos, completadas>>
omVars == <<om_pc, omstop_pc>>
finVars == <<allocVars, e2eVars, omVars>>
nuevos == <<lockVars, routeVars, listenVars, haltVars, finVars>>
tardios == <<codVars, wireVars, sockVars, sockHist, fsVars, nuevos>>
vars == <<ackVars, asmVars, last, llamada, ackHist, presVars, presHist, corriendo, stopVars, stopHist, tardios>>

(***************************************************************************)
(* Program constants                                                       *)
(***************************************************************************)
TIMEOUT == 15
MAX_RETRIES == 3
CHECK_INTERVAL == 2
ASM_TIMEOUT == 120
ASM_CLEANUP_INTERVAL == 30
HELLO_INTERVAL == 30
PEER_TIMEOUT == 90
OM_CLEANUP_INTERVAL == 60
JOIN_TIMEOUT == 2

(***************************************************************************)
(* Bounds of the model                                                     *)
(***************************************************************************)
MaxQueue == 2        \* frames on cola_saliente
MaxNotif == 1        \* strings on cola_notificaciones
MaxReg == 2          \* accepted registrations in one run
TickStep == 8        \* seconds that pass in one step of the untimed specification
MaxElapsed == 70     \* seconds a pending entry is followed in the timed specification
MaxRegTimed == 1     \* accepted registrations in one run of the timed specification
MaxFrags == 3        \* largest total_frags of a received FILE frame
MaxFiles == 1        \* files in the download directory
AsmTickStep == 61    \* seconds that pass in one step of the assembler's specification
PresTickStep == 15   \* seconds that pass in one step of the presence manager's specification
MaxPayload == 2      \* bytes of payload of a frame in the codec's specification
MaxClose == 2        \* calls of MySocket.close in the socket's specification
MaxTx == 2           \* frames transmitted in the socket's specification
MaxChunks == 2       \* whole chunks of CHUNK_SIZE bytes in a file that is sent
MaxIn == 1           \* frames on cola_entrante
MaxHeard == 1        \* frames the listener hears during a shutdown
MaxBeacon == 1       \* length of cola_saliente up to which the presence loop emits during a shutdown

MY_MAC == "AA:AA:AA:AA:AA:AA"
MAC_B == "BB:BB:BB:BB:BB:BB"
MAC_C == "CC:CC:CC:CC:CC:CC"
TID == 7

\* the peers on the segment, and the workers App.start starts, in the order of App.stop
Peers == {MAC_B, MAC_C}
\* the threads that send files (App.send_file, the GUI's send_file)
Callers == {"app", "gui"}
Workers == {"listener", "sender", "retry", "presence", "assembler", "router"}

Max(a, b) == IF a >= b THEN a ELSE b
Min(a, b) == IF a <= b THEN a ELSE b

(***************************************************************************)
(* Frame (src/core/frame.py)                                               *)
(***************************************************************************)
TYPE_MAP == {"MSG", "FILE", "CTRL", "HELLO", "BROADCAST"}

\* Frame.__init__: the argument checks that raise ValueError.
FrameOk(msg_type, transfer_id, fragment_no, total_frags) ==
    /\ msg_type \in TYPE_MAP
    /\ 0 <= transfer_id /\ transfer_id <= 65535
    /\ 0 <= fragment_no /\ fragment_no <= 65535
    /\ 1 <= total_frags /\ total_frags <= 65535
    /\ ~(fragment_no > total_frags)

Frame(mac_dst, mac_src, msg_type, transfer_id, fragment_no, total_frags, data) ==
    [mac_dst |-> mac_dst, mac_src |-> mac_src, msg_type |-> msg_type,
     transfer_id |-> transfer_id, fragment_no |-> fragment_no,
     total_frags |-> total_frags, data |-> data]

\* FrameFactory.build_msg / build_file on the local factory (mi_mac = MY_MAC).
build_msg(id_mensaje, mensaje, mac_dst) ==
    Frame(mac_dst, MY_MAC, "MSG", id_mensaje, 1, 1, mensaje)

build_file(id_mensaje, chunk, fragment_no, mac_dst, total_fragments) ==
    Frame(mac_dst, MY_MAC, "FILE", id_mensaje, fragment_no, total_fragments, chunk)

NoFrame == Frame("", "", "NONE", 0, 0, 1, <<>>)

(***************************************************************************)
(* Time                                                                    *)
(***************************************************************************)
TimeNow == 0

\* a stamp after d more seconds, saturating at -(limit + 1)
Shift(stamp, d, limit) == Max(stamp - d, 0 - (limit + 1))

(***************************************************************************)
(* Retry manager (AckManagerThread)                                        *)
(***************************************************************************)
\* the frames the application registers, each with its description
RegInputs ==
    { <<build_msg(TID, <<"h">>, MAC_B), "">>,
      <<build_msg(TID, <<"y">>, MAC_C), "">>,
      <<build_file(TID, <<"a", "|", "x">>, 1, MAC_B, 2), "f1">> }

Clave(frame) ==
    IF frame.msg_type = "FILE" THEN <<frame.transfer_id, frame.fragment_no>>
    ELSE <<frame.transfer_id, 0>>

Claves == { Clave(in[1]) : in \in RegInputs }

Pendientes(tabla) == { tabla[i].clave : i \in 1..Len(tabla) }

Entrada(tabla, clave) == tabla[CHOOSE i \in 1..Len(tabla) : tabla[i].clave = clave]

\* del d[clave] on an insertion-ordered dict
Del(tabla, clave) == SelectSeq(tabla, LAMBDA e : e.clave # clave)

NotaError(e) == [tipo |-> "error", descripcion |-> e.descripcion, mac |-> e.frame.mac_dst, id |-> 0]
NotaCompletada(ack_id, descripcion) == [tipo |-> "completada", descripcion |-> descripcion, mac |-> "", id |-> ack_id]

\* the record of a call: the function, the key it computed, the value it returned
Llamada(fn, clave, r) == [fn |-> fn, clave |-> clave, ret |-> r]
NoLlamada == Llamada("none", <<>>, FALSE)

\* registrar_mensaje without the test for a pending key: the entry is overwritten in place
registrar_mensaje_SinControl(frame, descripcion) ==
    LET clave == Clave(frame)
        e == [clave |-> clave, timestamp |-> TimeNow, retries |-> 0,
              frame |-> frame, descripcion |-> descripcion]
    IN
    /\ esperando_ack' = IF clave \in Pendientes(esperando_ack)
                        THEN [i \in 1..Len(esperando_ack) |->
                                IF esperando_ack[i].clave = clave THEN e ELSE esperando_ack[i]]
                        ELSE Append(esperando_ack, e)
    /\ cola_saliente' = Append(cola_saliente, frame)
    /\ llamada' = Llamada("registrar_mensaje", clave, TRUE)

\* registrar_mensaje that puts the frame on the queue twice
registrar_mensaje_DosVeces(frame, descripcion) ==
    LET clave == Clave(frame) IN
    IF clave \in Pendientes(esperando_ack)
    THEN /\ UNCHANGED <<esperando_ack, cola_saliente>>
         /\ llamada' = Llamada("registrar_mensaje", clave, FALSE)
    ELSE /\ esperando_ack' = Append(esperando_ack,
                [clave |-> clave, timestamp |-> TimeNow, retries |-> 0,
                 frame |-> frame, descripcion |-> descripcion])
         /\ cola_saliente' = cola_saliente \o <<frame, frame>>
         /\ llamada' = Llamada("registrar_mensaje", clave, TRUE)

\* AckManagerThread.registrar_mensaje
registrar_mensaje(frame, descripcion) ==
    LET clave == Clave(frame) IN
    IF clave \in Pendientes(esperando_ack)
    THEN /\ UNCHANGED <<esperando_ack, cola_saliente>>
         /\ llamada' = Llamada("registrar_mensaje", clave, FALSE)
    ELSE /\ esperando_ack' = Append(esperando_ack,
                [clave |-> clave, timestamp |-> TimeNow, retries |-> 0,
                 frame |-> frame, descripcion |-> descripcion])
         /\ cola_saliente' = Append(cola_saliente, frame)
         /\ llamada' = Llamada("registrar_mensaje", clave, TRUE)

\* handle_ack that forgets the del
handle_ack_SinDel(ack_id, fragment_no) ==
    LET clave == <<ack_id, fragment_no>> IN
    /\ UNCHANGED <<esperando_ack, cola_notificaciones>>
    /\ llamada' = Llamada("handle_ack", clave, clave \in Pendientes(esperando_ack))

\* handle_ack that reports the transfer as completed at every acknowledged fragment
handle_ack_CadaFragmento(ack_id, fragment_no) ==
    LET clave == <<ack_id, fragment_no>> IN
    IF clave \in Pendientes(esperando_ack)
    THEN LET e == Entrada(esperando_ack, clave) IN
         /\ esperando_ack' = Del(esperando_ack, clave)
         /\ cola_notificaciones' =
                IF e.frame.msg_type = "FILE"
                THEN Append(cola_notificaciones, NotaCompletada(ack_id, e.descripcion))
                ELSE cola_notificaciones
         /\ llamada' = Llamada("handle_ack", clave, TRUE)
    ELSE /\ UNCHANGED <<esperando_ack, cola_notificaciones>>
         /\ llamada' = Llamada("handle_ack", clave, FALSE)

\* AckManagerThread.handle_ack
handle_ack(ack_id, fragment_no) ==
    LET clave == <<ack_id, fragment_no>> IN
    IF clave \in Pendientes(esperando_ack)
    THEN LET e == Entrada(esperando_ack, clave) IN
         /\ esperando_ack' = Del(esperando_ack, clave)
         /\ cola_notificaciones' =
                IF e.frame.msg_type = "FILE" /\ fragment_no = e.frame.total_frags
                THEN Append(cola_notificaciones, NotaCompletada(ack_id, e.descripcion))
                ELSE cola_notificaciones
         /\ llamada' = Llamada("handle_ack", clave, TRUE)
    ELSE /\ UNCHANGED <<esperando_ack, cola_notificaciones>>
         /\ llamada' = Llamada("handle_ack", clave, FALSE)

\* handle_file_ack that drops the fragment number
handle_file_ack_SoloId(transfer_id, fragment_no) == handle_ack(transfer_id, 0)

\* AckManagerThread.handle_file_ack
handle_file_ack(transfer_id, fragment_no) == handle_ack(transfer_id, fragment_no)

\* AckManagerThread.run: the test of one entry of the scan
Vencida(e, current_time) == (current_time - e.timestamp) > TIMEOUT

QuedanReintentos_UnoMas(e) == e.retries <= MAX_RETRIES

QuedanReintentos(e) == e.retries < MAX_RETRIES

\* a scan that retries without waiting for the timeout
Reintentar_SinVencer(e, current_time) == QuedanReintentos(e)

Reintentar(e, current_time) == Vencida(e, current_time) /\ QuedanReintentos(e)

Agotada(e, current_time) == Vencida(e, current_time) /\ ~QuedanReintentos(e)

\* f applied to each element of a sequence
MapSeq(f(_), s) == [i \in 1..Len(s) |-> f(s[i])]

\* a retransmission that leaves the payload behind
FrameDe_SinPayload(e) == [e.frame EXCEPT !.data = <<>>]

FrameDe(e) == e.frame

\* AckManagerThread.run: one scan of the table under the lock, after the sleep
sweep(current_time) ==
    LET reintentada(e) == IF Reintentar(e, current_time)
                          THEN [e EXCEPT !.timestamp = current_time, !.retries = e.retries + 1]
                          ELSE e
        expired_claves == { esperando_ack[i].clave : i \in { j \in 1..Len(esperando_ack) :
                                                             Agotada(esperando_ack[j], current_time) } }
    IN
    /\ cola_saliente' = cola_saliente \o
            MapSeq(FrameDe, SelectSeq(esperando_ack, LAMBDA e : Reintentar(e, current_time)))
    /\ cola_notificaciones' = cola_notificaciones \o
            MapSeq(NotaError, SelectSeq(esperando_ack, LAMBDA e : Agotada(e, current_time)))
    /\ esperando_ack' = SelectSeq(MapSeq(reintentada, esperando_ack),
                                  LAMBDA e : e.clave \notin expired_claves)
    /\ llamada' = NoLlamada

(***************************************************************************)
(* Router (RouterThread.run), CTRL branch                                  *)
(***************************************************************************)
\* int(s) on a field of a CTRL payload: the decimal fields of the model
Decimal == [s \in {"0", "1", "2", "7", "8"} |->
              CASE s = "0" -> 0 [] s = "1" -> 1 [] s = "2" -> 2 [] s = "7" -> 7 [] s = "8" -> 8]

IsDecimal(s) == s \in DOMAIN Decimal

\* a CTRL frame received from a peer; data is the payload text split on "|"
Ctrl(mac_src, parts) == Frame(MY_MAC, mac_src, "CTRL", 1, 1, 1, parts)

CtrlInputs ==
    { Ctrl(MAC_B, <<"ack", "7">>),
      Ctrl(MAC_B, <<"ack", "x">>),
      Ctrl(MAC_B, <<"nack", "7">>),
      Ctrl(MAC_B, <<"file_ack", "7", "1">>),
      Ctrl(MAC_B, <<"file_ack", "7">>) }

\* RouterThread.run, frame.msg_type == "CTRL"; an exception of int() is caught and logged
route_ctrl(frame) ==
    LET parts == frame.data
        nada == /\ UNCHANGED <<esperando_ack, cola_notificaciones>>
                /\ llamada' = NoLlamada
    IN
    IF Len(parts) >= 2
    THEN LET cmd == parts[1]
             param == parts[2]
         IN
         IF cmd = "ack"
         THEN IF IsDecimal(param) THEN handle_ack(Decimal[param], 0) ELSE nada
         ELSE IF cmd = "file_ack" /\ Len(parts) = 3
         THEN IF IsDecimal(parts[2]) /\ IsDecimal(parts[3])
              THEN handle_file_ack(Decimal[parts[2]], Decimal[parts[3]])
              ELSE nada
         ELSE nada
    ELSE nada

(***************************************************************************)
(* Steps of the retry manager, the router, the sender and the clock        *)
(***************************************************************************)
\* the application registers a frame (App.send_reliable_msg, FileSender.start_transfer)
Register(frame, descripcion) ==
    /\ n_reg < MaxReg
    /\ Len(cola_saliente) < MaxQueue
    /\ registrar_mensaje(frame, descripcion)
    /\ last' = "register"
    /\ UNCHANGED <<cola_notificaciones, sweep_slept>>

\* the router takes a CTRL frame from the inbound queue
RouteCtrl(frame) ==
    /\ Len(cola_notificaciones) < MaxNotif
    /\ route_ctrl(frame)
    /\ last' = "route"
    /\ UNCHANGED <<cola_saliente, sweep_slept>>

\* the sweeper wakes from time.sleep(CHECK_INTERVAL), reads the clock and scans
Sweep ==
    /\ sweep_slept >= CHECK_INTERVAL
    /\ Len(cola_saliente) + Len(SelectSeq(esperando_ack, LAMBDA e : Reintentar(e, TimeNow))) <= MaxQueue
    /\ Len(cola_notificaciones) + Len(SelectSeq(esperando_ack, LAMBDA e : Agotada(e, TimeNow))) <= MaxNotif
    /\ sweep(TimeNow)
    /\ sweep_slept' = 0
    /\ last' = "sweep"

\* SendingThread.run: one frame leaves the outbound queue for the socket
Send ==
    /\ cola_saliente # <<>>
    /\ cola_saliente' = Tail(cola_saliente)
    /\ last' = "send"
    /\ llamada' = NoLlamada
    /\ UNCHANGED <<esperando_ack, cola_notificaciones, sweep_slept>>

\* App._consume_notifications: one notification is taken
Consume ==
    /\ cola_notificaciones # <<>>
    /\ cola_notificaciones' = Tail(cola_notificaciones)
    /\ last' = "consume"
    /\ llamada' = NoLlamada
    /\ UNCHANGED <<esperando_ack, cola_saliente, sweep_slept>>

\* d seconds pass
Tick(d) ==
    /\ esperando_ack' = MapSeq(LAMBDA e : [e EXCEPT !.timestamp = Shift(e.timestamp, d, TIMEOUT)],
                               esperando_ack)
    /\ sweep_slept' = Min(sweep_slept + d, CHECK_INTERVAL)
    /\ last' = "tick"
    /\ llamada' = NoLlamada
    /\ UNCHANGED <<cola_saliente, cola_notificaciones>>

(***************************************************************************)
(* History of the retry manager, read off the step that was taken          *)
(***************************************************************************)
\* the elements a step appended to a queue
Gained(q, q2) ==
    IF Len(q2) >= Len(q) /\ SubSeq(q2, 1, Len(q)) = q
    THEN SubSeq(q2, Len(q) + 1, Len(q2))
    ELSE <<>>

Count(s, P(_)) == Cardinality({ i \in 1..Len(s) : P(s[i]) })

Registered(k) == llamada'.fn = "registrar_mensaje" /\ llamada'.ret /\ llamada'.clave = k

Acked(k) == llamada'.fn = "handle_ack" /\ llamada'.ret /\ llamada'.clave = k

Removed(k) == k \in Pendientes(esperando_ack) /\ k \notin Pendientes(esperando_ack')

AckObserve(d) ==
    LET puts == Gained(cola_saliente, cola_saliente')
        notas == Gained(cola_notificaciones, cola_notificaciones')
    IN
    /\ puestos' = [k \in Claves |->
          (IF Registered(k) THEN 0 ELSE puestos[k])
          + Count(puts, LAMBDA f : f.msg_type \in {"MSG", "FILE"} /\ Clave(f) = k)]
    /\ fallos' = [k \in Claves |->
          (IF Registered(k) THEN 0 ELSE fallos[k])
          + (IF k \in Pendientes(esperando_ack)
             THEN Count(notas, LAMBDA n : n = NotaError(Entrada(esperando_ack, k)))
             ELSE 0)]
    /\ resultado' = [k \in Claves |->
          IF Registered(k) THEN "pending"
          ELSE IF Acked(k) THEN "acked"
          ELSE IF Removed(k) /\ last' = "sweep" THEN "failed"
          ELSE resultado[k]]
    /\ n_reg' = n_reg + Cardinality({ k \in Claves : Registered(k) })
    /\ n_ack' = n_ack + (IF llamada'.fn = "handle_ack" /\ llamada'.ret THEN 1 ELSE 0)
    /\ n_exp' = n_exp + (IF last' = "sweep"
                         THEN Cardinality({ k \in Claves : Removed(k) }) ELSE 0)
    /\ transcurrido' = [k \in Claves |->
          IF k \notin Pendientes(esperando_ack') \/ Registered(k) THEN 0
          ELSE transcurrido[k] + d]

(***************************************************************************)
(* Specification of the retry manager with the router's CTRL branch        *)
(***************************************************************************)
InitResto ==
    /\ esperando_ack = <<>>
    /\ cola_saliente = <<>>
    /\ cola_notificaciones = <<>>
    /\ sweep_slept = 0
    /\ active_transfers = <<>>
    /\ files = <<>>
    /\ asm_last_cleanup = TimeNow
    /\ last = "init"
    /\ llamada = NoLlamada
    /\ puestos = [k \in Claves |-> 0]
    /\ fallos = [k \in Claves |-> 0]
    /\ resultado = [k \in Claves |-> "none"]
    /\ n_reg = 0
    /\ n_ack = 0
    /\ n_exp = 0
    /\ transcurrido = [k \in Claves |-> 0]
    /\ peers = <<>>
    /\ om_last_cleanup = TimeNow
    /\ om_slept = HELLO_INTERVAL
    /\ corriendo = [w \in Workers |-> TRUE]
    /\ vigente = [m \in Peers |-> 0 - 1]
    /\ app_running = TRUE
    /\ stop_pc = <<"idle", 0>>
    /\ vivos = Workers
    /\ sender_pc = "loop"
    /\ fragment_queue = <<>>
    /\ my_socket = TRUE
    /\ join_slept = 0
    /\ senalados = <<>>
    /\ unidos = <<>>
    /\ n_offline = 0
    /\ enviados = <<>>
    /\ cod_frame = NoFrame
    /\ cod_raw = <<>>
    /\ cod_bit = 0 - 1
    /\ cod_result = [err |-> "none", frame |-> NoFrame]
    /\ escrito = <<>>
    /\ fs_pc = "idle"
    /\ fs_transfer_id = 0
    /\ fs_filesize = 0
    /\ fs_total_frags = 1
    /\ fs_reliable = FALSE
    /\ fs_fragment_no = 1
    /\ fs_pos = 0
    /\ fs_emitidos = <<>>
    /\ sock_fd = TRUE
    /\ n_close_calls = 0
    /\ tx_pc = "idle"
    /\ rx_pc = "idle"
    /\ tx_out = "pending"
    /\ rx_out = "pending"
    /\ n_close = 0
    /\ n_tx = 0
    /\ recibido = [err |-> "none", frame |-> NoFrame]
    /\ primero = [k \in Claves |-> <<>>]
    /\ cola_entrante = <<>>
    /\ app_msg_queue = <<>>
    /\ hear_pc = "loop"
    /\ hear_raw = <<>>
    /\ hear_dec = [err |-> "none", frame |-> NoFrame]
    /\ lock_owner = "none"
    /\ reg_pc = "idle"
    /\ reg_in = <<NoFrame, "">>
    /\ ack_pc = "idle"
    /\ ack_clave = <<0, 0>>
    /\ sw_pc = "idle"
    /\ sw_i = 1
    /\ sw_expired = {}
    /\ oidos = 0
    /\ alloc_pc = [c \in Callers |-> "idle"]
    /\ ids = <<>>
    /\ acuses = <<>>
    /\ registrados = 0
    /\ acusados = {}
    /\ fracasos = 0
    /\ completadas = {}
    /\ om_pc = "sleep"
    /\ omstop_pc = "idle"

\* the counter is random.randint(1, 1000) at construction: one value of that range
Init == InitResto /\ next_transfer_id = TID - 1

\* what a step of the retry manager, or of the assembler, leaves alone
Ajenos == UNCHANGED <<presVars, presHist, corriendo, stopVars, stopHist, tardios>>

AckRest == AckObserve(0) /\ UNCHANGED asmVars /\ Ajenos

Next ==
    \/ \E in \in RegInputs : Register(in[1], in[2]) /\ AckRest
    \/ \E f \in CtrlInputs : RouteCtrl(f) /\ AckRest
    \/ Sweep /\ AckRest
    \/ Send /\ AckRest
    \/ Consume /\ AckRest
    \/ Tick(TickStep) /\ AckRest

Spec == Init /\ [][Next]_vars

(***************************************************************************)
(* Specification with a clock of one-second steps and a sweeper that scans *)
(* exactly when its sleep of CHECK_INTERVAL ends                           *)
(***************************************************************************)
TimedRest(d) == AckObserve(d) /\ UNCHANGED asmVars /\ Ajenos

TickTimed ==
    /\ sweep_slept < CHECK_INTERVAL
    /\ \A k \in Claves : transcurrido[k] < MaxElapsed
    /\ Tick(1)

\* the acknowledgements a peer sends back
AckInputs == { f \in CtrlInputs : f.data \in { <<"ack", "7">>, <<"file_ack", "7", "1">> } }

NextTimed ==
    \/ \E in \in RegInputs : n_reg < MaxRegTimed /\ Register(in[1], in[2]) /\ TimedRest(0)
    \/ \E f \in AckInputs : RouteCtrl(f) /\ TimedRest(0)
    \/ Sweep /\ TimedRest(0)
    \/ Send /\ TimedRest(0)
    \/ Consume /\ TimedRest(0)
    \/ TickTimed /\ TimedRest(1)

SpecTimed == Init /\ [][NextTimed]_vars

(***************************************************************************)
(* File assembler (FileAssemblerManagerThread)                             *)
(*                                                                         *)
(* Bytes and file names are sequences of one-character strings.  A path is *)
(* the file name inside the download directory.  _process_fragment and     *)
(* _assemble_file are functions of the table and the directory that        *)
(* return the new table, the new directory and the value returned.         *)
(***************************************************************************)
Resultado(tabla, dir, r) == [active |-> tabla, files |-> dir, ret |-> r]

\* str.isalnum() on the characters of the model
Alnum == {"a", "f", "i", "l", "e", "x", "y", "z", "w", "0", "1", "2", "3", "7"}

\* str.strip(): leading and trailing blanks removed
RECURSIVE Strip(_)
Strip(t) ==
    IF t = <<>> THEN t
    ELSE IF Head(t) = " " THEN Strip(Tail(t))
    ELSE IF t[Len(t)] = " " THEN Strip(SubSeq(t, 1, Len(t) - 1))
    ELSE t

\* position of the first sep in t, 0 when there is none
IndexOf(t, sep) ==
    IF \E i \in 1..Len(t) : t[i] = sep
    THEN CHOOSE i \in 1..Len(t) : t[i] = sep /\ \A j \in 1..(i - 1) : t[j] # sep
    ELSE 0

\* str(n) for the numbers of the model
Str(n) == CASE n = 1 -> <<"1">> [] n = 2 -> <<"2">> [] n = 3 -> <<"3">> [] n = 4 -> <<"4">>
            [] n = 5 -> <<"5">> [] n = 7 -> <<"7">>

\* os.path.splitext: the extension starts at the last dot that follows a character other than a dot
SplitExt(path) ==
    LET dots == { i \in 1..Len(path) : path[i] = "." /\ \E j \in 1..(i - 1) : path[j] # "." }
    IN IF dots = {} THEN <<path, <<>>>>
       ELSE LET p == CHOOSE i \in dots : \A j \in dots : j <= i
            IN <<SubSeq(path, 1, p - 1), SubSeq(path, p, Len(path))>>

\* _assemble_file: the sanitised name, file_<tid> when nothing is left of it
NombreSeguro(filename, tid) ==
    LET limpio == Strip(SelectSeq(filename, LAMBDA c : c \in Alnum \/ c \in {" ", "-", "_", "."}))
    IN IF limpio = <<>> THEN <<"f", "i", "l", "e", "_">> \o Str(tid) ELSE limpio

\* _assemble_file: the first path of filepath, name_1ext, name_2ext, ... that does not exist
RECURSIVE Libre(_, _, _)
Libre(dir, original_filepath, counter) ==
    LET partes == SplitExt(original_filepath)
        filepath == IF counter = 0 THEN original_filepath
                    ELSE partes[1] \o <<"_">> \o Str(counter) \o partes[2]
    IN IF filepath \in DOMAIN dir THEN Libre(dir, original_filepath, counter + 1) ELSE filepath

\* the bytes of fragments lo..hi, in index order
RECURSIVE Concat(_, _, _)
Concat(fragments, lo, hi) ==
    IF lo > hi THEN <<>> ELSE fragments[lo] \o Concat(fragments, lo + 1, hi)

Quitar(tabla, tid) == [t \in DOMAIN tabla \ {tid} |-> tabla[t]]

\* _assemble_file that keeps the transfer in the table after writing the file
assemble_file_SinQuitar(tabla, dir, tid, io) ==
    IF tid \notin DOMAIN tabla \/ ~io THEN Resultado(tabla, dir, FALSE)
    ELSE LET info == tabla[tid]
             filepath == Libre(dir, NombreSeguro(info.filename, tid), 0)
             faltan == { i \in 1..info.total_frags : i \notin DOMAIN info.fragments }
         IN IF faltan # {}
            THEN LET i == CHOOSE x \in faltan : \A y \in faltan : x <= y
                 IN Resultado(tabla, (filepath :> Concat(info.fragments, 1, i - 1)) @@ dir, FALSE)
            ELSE Resultado(tabla, (filepath :> Concat(info.fragments, 1, info.total_frags)) @@ dir, TRUE)

\* FileAssemblerManagerThread._assemble_file; io is whether open() and write() succeed
assemble_file(tabla, dir, tid, io) ==
    IF tid \notin DOMAIN tabla THEN Resultado(tabla, dir, FALSE)
    ELSE
    LET info == tabla[tid]
        filepath == Libre(dir, NombreSeguro(info.filename, tid), 0)
        faltan == { i \in 1..info.total_frags : i \notin DOMAIN info.fragments }
    IN
    IF ~io
    THEN Resultado(tabla, dir, FALSE)                   \* exception: the partial file is removed
    ELSE IF faltan # {}
    THEN LET i == CHOOSE x \in faltan : \A y \in faltan : x <= y
         IN Resultado(tabla, (filepath :> Concat(info.fragments, 1, i - 1)) @@ dir, FALSE)
    ELSE Resultado(Quitar(tabla, tid),
                   (filepath :> Concat(info.fragments, 1, info.total_frags)) @@ dir, TRUE)

\* FileAssemblerManagerThread._process_fragment
process_fragment(tabla, dir, frame, io) ==
    LET tid == frame.transfer_id IN
    IF tid \notin DOMAIN tabla
    THEN IF frame.fragment_no # 1 THEN Resultado(tabla, dir, FALSE)
         ELSE IF IndexOf(frame.data, "|") = 0 THEN Resultado(tabla, dir, FALSE)
         ELSE LET p == IndexOf(frame.data, "|")
                  filename == Strip(SubSeq(frame.data, 1, p - 1))
                  data == SubSeq(frame.data, p + 1, Len(frame.data))
                  nueva == (tid :> [filename |-> filename,
                                    total_frags |-> frame.total_frags,
                                    fragments |-> (1 :> data),
                                    last_seen |-> TimeNow,
                                    mac_src |-> frame.mac_src]) @@ tabla
              IN IF filename = <<>> THEN Resultado(tabla, dir, FALSE)
                 ELSE IF nueva[tid].total_frags = 1 THEN assemble_file(nueva, dir, tid, io)
                 ELSE Resultado(nueva, dir, TRUE)
    ELSE
    LET info == tabla[tid] IN
    IF info.total_frags # frame.total_frags THEN Resultado(tabla, dir, FALSE)
    ELSE IF frame.fragment_no \in DOMAIN info.fragments THEN Resultado(tabla, dir, TRUE)
    ELSE LET nueva == [tabla EXCEPT ![tid] =
                          [info EXCEPT !.fragments = (frame.fragment_no :> frame.data) @@ info.fragments,
                                       !.last_seen = TimeNow]]
         IN IF Cardinality(DOMAIN nueva[tid].fragments) = nueva[tid].total_frags
            THEN assemble_file(nueva, dir, tid, io)
            ELSE Resultado(nueva, dir, TRUE)

\* FileAssemblerManagerThread._cleanup_timed_out_transfers
cleanup_timed_out_transfers(tabla, now) ==
    [t \in { x \in DOMAIN tabla : ~((now - tabla[x].last_seen) > ASM_TIMEOUT) } |-> tabla[t]]

\* a FILE frame a peer sends to this host
FileFrame(mac_src, fragment_no, total_frags, data) ==
    Frame(MY_MAC, mac_src, "FILE", TID, fragment_no, total_frags, data)

Primeros == { <<"a", "|", "x">>, <<"/", "|", "z">>, <<"x">> }

DatosDe(fragment_no) ==
    CASE fragment_no = 1 -> Primeros
      [] fragment_no = 2 -> { <<"y">> }
      [] OTHER -> { <<"w">> }

\* the frames the listener accepts: Frame.__init__ admits fragment_no = 0
AsmInputs ==
    { FileFrame(m, n, t, d) : m \in {MAC_B, MAC_C}, n \in 0..MaxFrags, t \in 1..MaxFrags,
                              d \in UNION { DatosDe(i) : i \in 0..MaxFrags } }
    \cap { f \in [mac_dst : {MY_MAC}, mac_src : {MAC_B, MAC_C}, msg_type : {"FILE"},
                  transfer_id : {TID}, fragment_no : 0..MaxFrags, total_frags : 1..MaxFrags,
                  data : UNION { DatosDe(i) : i \in 0..MaxFrags }] :
             /\ FrameOk(f.msg_type, f.transfer_id, f.fragment_no, f.total_frags)
             /\ f.data \in DatosDe(f.fragment_no) }

\* _process_fragment that refreshes last_seen of the frame's transfer whatever it decides
AsmProcess_Refresca(frame, io) ==
    /\ Cardinality(DOMAIN files) < MaxFiles
    /\ LET r == process_fragment(active_transfers, files, frame, io) IN
       /\ active_transfers' = [t \in DOMAIN r.active |->
                                 IF t = frame.transfer_id
                                 THEN [r.active[t] EXCEPT !.last_seen = TimeNow]
                                 ELSE r.active[t]]
       /\ files' = r.files
       /\ llamada' = Llamada("_process_fragment", <<>>, r.ret)
    /\ last' = "frag"
    /\ UNCHANGED asm_last_cleanup

\* _process_fragment that records the payload of a fragment it has already
AsmProcess_Sobrescribe(frame, io) ==
    /\ Cardinality(DOMAIN files) < MaxFiles
    /\ LET r == process_fragment(active_transfers, files, frame, io) IN
       /\ active_transfers' = [t \in DOMAIN r.active |->
                                 IF t = frame.transfer_id /\ frame.fragment_no \in DOMAIN r.active[t].fragments
                                 THEN [r.active[t] EXCEPT !.fragments[frame.fragment_no] = frame.data]
                                 ELSE r.active[t]]
       /\ files' = r.files
       /\ llamada' = Llamada("_process_fragment", <<>>, r.ret)
    /\ last' = "frag"
    /\ UNCHANGED asm_last_cleanup

\* FileAssemblerManagerThread.run: a fragment is taken from fragment_queue and processed
AsmProcess(frame, io) ==
    /\ Cardinality(DOMAIN files) < MaxFiles
    /\ LET r == process_fragment(active_transfers, files, frame, io) IN
       /\ active_transfers' = r.active
       /\ files' = r.files
       /\ llamada' = Llamada("_process_fragment", <<>>, r.ret)
    /\ last' = "frag"
    /\ UNCHANGED asm_last_cleanup

\* FileAssemblerManagerThread.run: the queue stayed empty and the cleanup is due
AsmIdle ==
    /\ (TimeNow - asm_last_cleanup) > ASM_CLEANUP_INTERVAL
    /\ active_transfers' = cleanup_timed_out_transfers(active_transfers, TimeNow)
    /\ asm_last_cleanup' = TimeNow
    /\ last' = "cleanup"
    /\ llamada' = NoLlamada
    /\ UNCHANGED files

\* d seconds pass for the assembler
AsmTick(d) ==
    /\ active_transfers' = [t \in DOMAIN active_transfers |->
            [active_transfers[t] EXCEPT !.last_seen = Shift(@, d, ASM_TIMEOUT)]]
    /\ asm_last_cleanup' = Shift(asm_last_cleanup, d, ASM_CLEANUP_INTERVAL)
    /\ last' = "tick"
    /\ llamada' = NoLlamada
    /\ UNCHANGED files

AsmRest == UNCHANGED <<ackVars, ackHist>> /\ Ajenos

NextAsm ==
    \/ \E f \in AsmInputs, io \in BOOLEAN : AsmProcess(f, io) /\ AsmRest
    \/ AsmIdle /\ AsmRest
    \/ AsmTick(AsmTickStep) /\ AsmRest

SpecAsm == Init /\ [][NextAsm]_vars

(***************************************************************************)
(* Presence manager (OnlineManager)                                        *)
(*                                                                         *)
(* A beacon's payload is its text split on "|".                            *)
(***************************************************************************)
BROADCAST_MAC == "FF:FF:FF:FF:FF:FF"
USERNAME == "me"

\* FrameFactory._gen_id: the ids random.randint gives, in the model
GenIds == {TID}

build_broadcast_online(id_mensaje) ==
    Frame(BROADCAST_MAC, MY_MAC, "BROADCAST", id_mensaje, 1, 1, <<USERNAME, "online">>)

build_broadcast_offline(id_mensaje) ==
    Frame(BROADCAST_MAC, MY_MAC, "BROADCAST", id_mensaje, 1, 1, <<USERNAME, "offline">>)

\* a beacon a peer emits: build_broadcast_online / build_broadcast_offline on the peer's factory
Beacon(mac_src, parts) == Frame(BROADCAST_MAC, mac_src, "BROADCAST", TID, 1, 1, parts)

\* the user name "u|v" holds the separator; "away" is no status; "hello" and the
\* empty payload have no separator
BeaconInputs ==
    { Beacon(m, p) : m \in Peers, p \in { <<"u", "online">>, <<"u", "offline">> } }
    \cup { Beacon(MAC_B, p) : p \in { <<"u", "v", "online">>, <<"v", "online">>, <<"u", "away">>,
                                      <<"hello">>, <<"">> } }

\* manage_broadcast that takes the last field for the status, however many fields there are
manage_broadcast_SinContar(tabla, frame) ==
    LET data == frame.data IN
    IF data[Len(data)] = "online"
    THEN [peers |-> (frame.mac_src :> [username |-> data[1], last_seen |-> TimeNow,
                                       status |-> "online"]) @@ tabla,
          ret |-> TRUE]
    ELSE IF data[Len(data)] = "offline" /\ frame.mac_src \in DOMAIN tabla
    THEN [peers |-> [m \in DOMAIN tabla \ {frame.mac_src} |-> tabla[m]], ret |-> TRUE]
    ELSE [peers |-> tabla, ret |-> FALSE]

\* OnlineManager.manage_broadcast: the new table and the value returned
manage_broadcast(tabla, frame) ==
    LET data == frame.data IN
    IF Len(data) = 2
    THEN IF data[2] = "online"
         THEN [peers |-> (frame.mac_src :> [username |-> data[1], last_seen |-> TimeNow,
                                            status |-> "online"]) @@ tabla,
               ret |-> TRUE]
         ELSE IF data[2] = "offline" /\ frame.mac_src \in DOMAIN tabla
         THEN [peers |-> [m \in DOMAIN tabla \ {frame.mac_src} |-> tabla[m]], ret |-> TRUE]
         ELSE [peers |-> tabla, ret |-> FALSE]
    ELSE [peers |-> tabla, ret |-> FALSE]

\* cleanup_peers that also drops a peer seen exactly PEER_TIMEOUT ago
cleanup_peers_Inclusive(tabla, now) ==
    [m \in { x \in DOMAIN tabla : ~((now - tabla[x].last_seen) >= PEER_TIMEOUT) } |-> tabla[m]]

\* a cleanup that removes nobody
cleanup_peers_Nadie(tabla, now) == tabla

\* OnlineManager.cleanup_peers
cleanup_peers(tabla, now) ==
    [m \in { x \in DOMAIN tabla : ~((now - tabla[x].last_seen) > PEER_TIMEOUT) } |-> tabla[m]]

\* the largest silence the history follows
PresCap == PEER_TIMEOUT + OM_CLEANUP_INTERVAL + HELLO_INTERVAL + 1

\* the beacons "user|online" and "user|offline" of a user name without "|"
EsOnline(parts) == Len(parts) = 2 /\ parts[2] = "online"
EsOffline(parts) == Len(parts) = 2 /\ parts[2] = "offline"

\* RouterThread.run, frame.msg_type == "BROADCAST": the beacon goes to manage_broadcast
RouteBeacon(frame) ==
    /\ LET r == manage_broadcast(peers, frame) IN
       /\ peers' = r.peers
       /\ llamada' = Llamada("manage_broadcast", <<>>, r.ret)
    /\ vigente' = [vigente EXCEPT ![frame.mac_src] =
                      IF EsOffline(frame.data) THEN 0 - 1
                      ELSE IF EsOnline(frame.data) THEN 0
                      ELSE @]
    /\ last' = "beacon"
    /\ UNCHANGED <<ackVars, om_last_cleanup, om_slept>>

\* OnlineManager.run: one iteration, when time.sleep(HELLO_INTERVAL) has ended
OmLoop ==
    /\ corriendo["presence"]
    /\ om_slept >= HELLO_INTERVAL
    /\ Len(cola_saliente) < MaxQueue
    /\ \E id \in GenIds : cola_saliente' = Append(cola_saliente, build_broadcast_online(id))
    /\ IF (TimeNow - om_last_cleanup) > OM_CLEANUP_INTERVAL
       THEN /\ peers' = cleanup_peers(peers, TimeNow)
            /\ om_last_cleanup' = TimeNow
       ELSE UNCHANGED <<peers, om_last_cleanup>>
    /\ om_slept' = 0
    /\ last' = "hello"
    /\ llamada' = NoLlamada
    /\ UNCHANGED <<esperando_ack, cola_notificaciones, sweep_slept, presHist>>

\* d seconds pass for the presence manager
PresTick(d) ==
    /\ om_slept < HELLO_INTERVAL
    /\ peers' = [m \in DOMAIN peers |-> [peers[m] EXCEPT !.last_seen = Shift(@, d, PEER_TIMEOUT)]]
    /\ om_last_cleanup' = Shift(om_last_cleanup, d, OM_CLEANUP_INTERVAL)
    /\ om_slept' = Min(om_slept + d, HELLO_INTERVAL)
    /\ vigente' = [m \in Peers |-> IF vigente[m] < 0 THEN vigente[m] ELSE Min(vigente[m] + d, PresCap)]
    /\ last' = "tick"
    /\ llamada' = NoLlamada
    /\ UNCHANGED ackVars

PresRest == UNCHANGED <<asmVars, ackHist, corriendo, stopVars, stopHist, tardios>>

NextPres ==
    \/ \E f \in BeaconInputs : RouteBeacon(f) /\ PresRest
    \/ OmLoop /\ PresRest
    \/ Send /\ UNCHANGED <<presVars, presHist>> /\ PresRest
    \/ PresTick(PresTickStep) /\ PresRest

SpecPres == Init /\ [][NextPres]_vars

\* the presence loop runs again whenever its sleep has ended, the sender keeps
\* taking frames, and time passes
SpecPresLive ==
    /\ SpecPres
    /\ WF_vars(OmLoop /\ PresRest)
    /\ WF_vars(Send /\ UNCHANGED <<presVars, presHist>> /\ PresRest)
    /\ WF_vars(PresTick(PresTickStep) /\ PresRest)

(***************************************************************************)
(* Shutdown (App.stop) with the workers' stop() and the sender's loop       *)
(***************************************************************************)
\* App.stop: threads, in the order they are signalled and joined
Orden == <<"listener", "sender", "retry", "presence", "assembler", "router">>

\* the sentinel None a stop() puts on a queue
Sentinel == NoFrame

EsBeaconOffline(f) == f.msg_type = "BROADCAST" /\ f.data = <<USERNAME, "offline">>

\* what a worker's stop() puts on cola_saliente
\* SendingThread.stop puts the sentinel, OnlineManager.stop an offline beacon
PuestoPorStop(w, id) ==
    CASE w = "sender" -> <<Sentinel>>
      [] w = "presence" -> <<build_broadcast_offline(id)>>
      [] OTHER -> <<>>

\* App.stop: the guard, and running = False
StopBegin ==
    /\ app_running
    /\ stop_pc[1] \in {"idle", "done"}
    /\ app_running' = FALSE
    /\ stop_pc' = <<"offline", 0>>
    /\ last' = "stop"
    /\ UNCHANGED <<cola_saliente, corriendo, vivos, sender_pc, fragment_queue, my_socket, join_slept,
                   senalados, unidos>>

\* App.stop called while running is False: it returns at once
StopAgain ==
    /\ ~app_running
    /\ last' = "stop_again"
    /\ UNCHANGED <<cola_saliente, corriendo, stopVars, senalados, unidos>>

\* App.stop: the offline beacon is built and put on cola_saliente
StopOffline ==
    /\ stop_pc[1] = "offline"
    /\ \E id \in GenIds : cola_saliente' = Append(cola_saliente, build_broadcast_offline(id))
    /\ stop_pc' = <<"signal", 1>>
    /\ last' = "stop"
    /\ UNCHANGED <<corriendo, app_running, vivos, sender_pc, fragment_queue, my_socket, join_slept,
                   senalados, unidos>>

\* App.stop: thread.stop() of the next worker of the list
StopSignal ==
    /\ stop_pc[1] = "signal"
    /\ LET w == Orden[stop_pc[2]] IN
       /\ corriendo' = [corriendo EXCEPT ![w] = FALSE]
       /\ \E id \in GenIds : cola_saliente' = cola_saliente \o PuestoPorStop(w, id)
       /\ fragment_queue' = IF w = "assembler" THEN Append(fragment_queue, Sentinel) ELSE fragment_queue
       /\ senalados' = Append(senalados, w)
    /\ stop_pc' = IF stop_pc[2] < Len(Orden) THEN <<"signal", stop_pc[2] + 1>> ELSE <<"join", 1>>
    /\ last' = "stop"
    /\ UNCHANGED <<app_running, vivos, sender_pc, my_socket, join_slept, unidos>>

\* the join of the mutated shutdown gives up at once
JoinVence_SinEspera == TRUE

\* Thread.join(timeout=2.0) has used up its budget
JoinVence == join_slept >= JOIN_TIMEOUT

\* App.stop: thread.join(timeout=2.0) of the next worker returns
StopJoin ==
    /\ stop_pc[1] = "join"
    /\ LET w == Orden[stop_pc[2]] IN
       \/ /\ w \notin vivos
          /\ unidos' = Append(unidos, <<w, "ended">>)
       \/ /\ w \in vivos
          /\ JoinVence
          /\ unidos' = Append(unidos, <<w, "timeout">>)
    /\ join_slept' = 0
    /\ stop_pc' = IF stop_pc[2] < Len(Orden) THEN <<"join", stop_pc[2] + 1>> ELSE <<"close", 0>>
    /\ last' = "stop"
    /\ UNCHANGED <<cola_saliente, corriendo, app_running, vivos, sender_pc, fragment_queue, my_socket,
                   senalados>>

\* MySocket.close that keeps the reference to the closed socket
close_SinOlvidar(abierto) == abierto

\* MySocket.close
close(abierto) == FALSE

\* App.stop: self.sock.close(), and the method returns
StopClose ==
    /\ stop_pc[1] = "close"
    /\ my_socket' = close(my_socket)
    /\ stop_pc' = <<"done", 0>>
    /\ last' = "stop"
    /\ UNCHANGED <<cola_saliente, corriendo, app_running, vivos, sender_pc, fragment_queue, join_slept,
                   senalados, unidos>>

\* a worker other than the sender leaves its loop once its flag is cleared
WorkerExit(w) ==
    /\ w \in vivos /\ w # "sender"
    /\ ~corriendo[w]
    /\ vivos' = vivos \ {w}
    /\ last' = "exit"
    /\ UNCHANGED <<cola_saliente, corriendo, app_running, stop_pc, sender_pc, fragment_queue, my_socket,
                   join_slept, senalados, unidos>>

\* SendingThread.run: the loop test, then cola_saliente.get(timeout=1.0) is entered
SenderLoop ==
    /\ "sender" \in vivos /\ sender_pc = "loop"
    /\ IF corriendo["sender"]
       THEN sender_pc' = "get" /\ UNCHANGED vivos
       ELSE vivos' = vivos \ {"sender"} /\ UNCHANGED sender_pc
    /\ last' = "sender"
    /\ UNCHANGED <<cola_saliente, corriendo, app_running, stop_pc, fragment_queue, my_socket, join_slept,
                   senalados, unidos>>

\* SendingThread.run: get returns a frame (sent, or ConnectionError when the socket is closed),
\* the sentinel (break), or raises queue.Empty
SenderGet ==
    /\ "sender" \in vivos /\ sender_pc = "get"
    /\ IF cola_saliente = <<>>
       THEN UNCHANGED <<cola_saliente, vivos>>
       ELSE /\ cola_saliente' = Tail(cola_saliente)
            /\ vivos' = IF Head(cola_saliente) = Sentinel THEN vivos \ {"sender"} ELSE vivos
    /\ sender_pc' = "loop"
    /\ last' = "sender"
    /\ UNCHANGED <<corriendo, app_running, stop_pc, fragment_queue, my_socket, join_slept,
                   senalados, unidos>>

\* one second passes while App.stop waits in a join
StopTick ==
    /\ stop_pc[1] = "join"
    /\ join_slept < JOIN_TIMEOUT
    /\ join_slept' = join_slept + 1
    /\ last' = "tick"
    /\ UNCHANGED <<cola_saliente, corriendo, app_running, stop_pc, vivos, sender_pc, fragment_queue,
                   my_socket, senalados, unidos>>

\* history of a shutdown step, and what the step leaves alone
StopRest ==
    /\ n_offline' = n_offline + Count(Gained(cola_saliente, cola_saliente'), EsBeaconOffline)
    /\ enviados' = IF /\ last' = "sender" /\ sender_pc = "get" /\ cola_saliente # <<>>
                      /\ Head(cola_saliente) # Sentinel /\ my_socket
                   THEN Append(enviados, Head(cola_saliente)) ELSE enviados
    /\ llamada' = NoLlamada
    /\ UNCHANGED <<esperando_ack, cola_notificaciones, sweep_slept, asmVars, ackHist, presVars, presHist, tardios>>

NextStop ==
    \/ StopBegin /\ StopRest
    \/ StopAgain /\ StopRest
    \/ StopOffline /\ StopRest
    \/ StopSignal /\ StopRest
    \/ StopJoin /\ StopRest
    \/ StopClose /\ StopRest
    \/ \E w \in Workers : WorkerExit(w) /\ StopRest
    \/ SenderLoop /\ StopRest
    \/ SenderGet /\ StopRest
    \/ StopTick /\ StopRest

SpecStop == Init /\ [][NextStop]_vars

(***************************************************************************)
(* Frame codec (src/core/frame.py): to_bytes, from_bytes, encode_mac,      *)
(* decode_mac.  Bytes are numbers 0..255; a MAC text is a sequence of      *)
(* characters; a 32-bit value is its four bytes, most significant first.   *)
(***************************************************************************)
ETHERTYPE == 34997
HEADER_SIZE == 23
CRC_SIZE == 4

HexDigits == <<"0", "1", "2", "3", "4", "5", "6", "7", "8", "9", "A", "B", "C", "D", "E", "F">>

\* str.upper on one character of a MAC text
Upper1(c) == CASE c = "a" -> "A" [] c = "b" -> "B" [] c = "c" -> "C"
               [] c = "d" -> "D" [] c = "e" -> "E" [] c = "f" -> "F" [] OTHER -> c

upper(t) == [i \in 1..Len(t) |-> Upper1(t[i])]

\* str.replace('-', ':')
replace(t) == [i \in 1..Len(t) |-> IF t[i] = "-" THEN ":" ELSE t[i]]

\* str.split(":")
RECURSIVE split(_)
split(t) ==
    IF \E i \in 1..Len(t) : t[i] = ":"
    THEN LET i == CHOOSE j \in 1..Len(t) : t[j] = ":" /\ \A k \in 1..(j - 1) : t[k] # ":"
         IN <<SubSeq(t, 1, i - 1)>> \o split(SubSeq(t, i + 1, Len(t)))
    ELSE <<t>>

IsHex(c) == \E i \in 1..Len(HexDigits) : HexDigits[i] = c

HexVal(c) == (CHOOSE i \in 1..Len(HexDigits) : HexDigits[i] = c) - 1

\* encode_mac; ok = FALSE where it raises ValueError
encode_mac(mac_str) ==
    LET parts == split(replace(upper(mac_str))) IN
    IF /\ Len(parts) = 6
       /\ \A i \in 1..6 : Len(parts[i]) = 2 /\ IsHex(parts[i][1]) /\ IsHex(parts[i][2])
    THEN [ok |-> TRUE, bytes |-> [i \in 1..6 |-> 16 * HexVal(parts[i][1]) + HexVal(parts[i][2])]]
    ELSE [ok |-> FALSE, bytes |-> <<>>]

\* f"{b:02X}"
Hex02(b) == <<HexDigits[(b \div 16) + 1], HexDigits[(b % 16) + 1]>>

\* decode_mac
decode_mac(mac_bytes) ==
    Hex02(mac_bytes[1]) \o <<":">> \o Hex02(mac_bytes[2]) \o <<":">> \o Hex02(mac_bytes[3]) \o <<":">>
    \o Hex02(mac_bytes[4]) \o <<":">> \o Hex02(mac_bytes[5]) \o <<":">> \o Hex02(mac_bytes[6])

TypeCode(msg_type) ==
    CASE msg_type = "MSG" -> 1 [] msg_type = "FILE" -> 2 [] msg_type = "CTRL" -> 3
      [] msg_type = "HELLO" -> 4 [] msg_type = "BROADCAST" -> 5

INV_TYPE_MAP == [b \in 1..5 |-> CHOOSE t \in TYPE_MAP : TypeCode(t) = b]

\* struct.pack("!H", n) and its inverse
Pack16(n) == <<n \div 256, n % 256>>
Unpack16(b, i) == 256 * b[i] + b[i + 1]

\* bit k of a byte
Bit(a, k) == (a \div (2 ^ k)) % 2

\* bitwise exclusive or of two bytes
Xor8(a, b) ==
      ((Bit(a, 0) + Bit(b, 0)) % 2)
    + ((Bit(a, 1) + Bit(b, 1)) % 2) * 2
    + ((Bit(a, 2) + Bit(b, 2)) % 2) * 4
    + ((Bit(a, 3) + Bit(b, 3)) % 2) * 8
    + ((Bit(a, 4) + Bit(b, 4)) % 2) * 16
    + ((Bit(a, 5) + Bit(b, 5)) % 2) * 32
    + ((Bit(a, 6) + Bit(b, 6)) % 2) * 64
    + ((Bit(a, 7) + Bit(b, 7)) % 2) * 128

Xor32(x, y) == <<Xor8(x[1], y[1]), Xor8(x[2], y[2]), Xor8(x[3], y[3]), Xor8(x[4], y[4])>>

\* x >> 1 on four bytes
Shr1(x) ==
    <<x[1] \div 2,
      (x[2] \div 2) + 128 * (x[1] % 2),
      (x[3] \div 2) + 128 * (x[2] % 2),
      (x[4] \div 2) + 128 * (x[3] % 2)>>

\* the reflected CRC-32 polynomial 0xEDB88320
CrcPoly == <<237, 184, 131, 32>>

\* one bit of the table computation; the register is four bytes
CrcBit(x) == IF x[4] % 2 = 1 THEN Xor32(Shr1(x), CrcPoly) ELSE Shr1(x)

RECURSIVE CrcBits(_, _)
CrcBits(x, n) ==
    IF n = 0 \/ Len(x) # 4 THEN x
    ELSE CrcBits(CrcBit(x), n - 1)

CrcTable == [b \in 0..255 |-> CrcBits(<<0, 0, 0, b>>, 8)]

\* one byte of the checksum: crc = table[(crc ^ byte) & 0xFF] ^ (crc >> 8)
CrcByte(c, byte) == Xor32(CrcTable[Xor8(c[4], byte)], <<0, c[1], c[2], c[3]>>)

\* the register after content[lo..hi], left to right; the range is halved so
\* that the register of the first half is a value before the second begins
RECURSIVE CrcUpdate(_, _, _, _)
CrcUpdate(c, content, lo, hi) ==
    IF lo > hi \/ Len(c) # 4 THEN c
    ELSE IF lo = hi THEN CrcByte(c, content[lo])
    ELSE LET mid == (lo + hi) \div 2
         IN  CrcUpdate(CrcUpdate(c, content, lo, mid), content, mid + 1, hi)

\* a checksum that does not depend on the content
crc32_Nulo(content) == <<0, 0, 0, 0>>

\* zlib.crc32(content) & 0xFFFFFFFF, packed with struct.pack("!I", crc)
crc32(content) == Xor32(CrcUpdate(<<255, 255, 255, 255>>, content, 1, Len(content)), <<255, 255, 255, 255>>)

\* Frame.__init__ on MAC texts: the MACs are upper-cased, the separators kept
Frame_init(mac_dst, mac_src, msg_type, transfer_id, fragment_no, total_frags, data) ==
    Frame(upper(mac_dst), upper(mac_src), msg_type, transfer_id, fragment_no, total_frags, data)

\* Frame.to_bytes; ok = FALSE where it raises ValueError
to_bytes(F) ==
    LET mac_dst_b == encode_mac(F.mac_dst)
        mac_src_b == encode_mac(F.mac_src)
        payload_len == Len(F.data)
        header == mac_dst_b.bytes \o mac_src_b.bytes \o Pack16(ETHERTYPE) \o <<TypeCode(F.msg_type)>>
                  \o Pack16(F.transfer_id) \o Pack16(F.fragment_no) \o Pack16(F.total_frags)
                  \o Pack16(payload_len)
        content == header \o F.data
    IN
    IF ~mac_dst_b.ok \/ ~mac_src_b.ok \/ payload_len > 65535
    THEN [ok |-> FALSE, bytes |-> <<>>]
    ELSE [ok |-> TRUE, bytes |-> content \o crc32(content)]

Fallo(kind) == [err |-> kind, frame |-> NoFrame]

\* Frame.from_bytes; err names the ValueError raised, "none" when a frame is returned
from_bytes(raw) ==
    IF Len(raw) < HEADER_SIZE + CRC_SIZE THEN Fallo("TooShort")
    ELSE
    LET ethertype == Unpack16(raw, 13)
        type_b == raw[15]
        payload_len == Unpack16(raw, 22)
        expected_len == HEADER_SIZE + payload_len + CRC_SIZE
    IN
    IF ethertype # ETHERTYPE THEN Fallo("BadEthertype")
    ELSE IF Len(raw) < expected_len THEN Fallo("LengthMismatch")
    ELSE
    LET payload == SubSeq(raw, HEADER_SIZE + 1, HEADER_SIZE + payload_len)
        crc_recv == SubSeq(raw, HEADER_SIZE + payload_len + 1, expected_len)
        calculated_crc == crc32(SubSeq(raw, 1, HEADER_SIZE + payload_len))
    IN
    IF calculated_crc # crc_recv THEN Fallo("BadCrc")
    ELSE IF type_b \notin DOMAIN INV_TYPE_MAP THEN Fallo("BadType")
    ELSE IF ~FrameOk(INV_TYPE_MAP[type_b], Unpack16(raw, 16), Unpack16(raw, 18), Unpack16(raw, 20))
    THEN Fallo("BadFrame")
    ELSE [err |-> "none",
          frame |-> Frame_init(decode_mac(SubSeq(raw, 1, 6)), decode_mac(SubSeq(raw, 7, 12)),
                               INV_TYPE_MAP[type_b], Unpack16(raw, 16), Unpack16(raw, 18),
                               Unpack16(raw, 20), payload)]

(***************************************************************************)
(* Specification of the codec: a frame is constructed and encoded, one bit *)
(* of its header or payload may be inverted on the link, and the bytes are *)
(* decoded                                                                 *)
(***************************************************************************)
\* the text of a MAC whose six octets are the pair p, with separator sep
MacTexto(p, sep) == p \o <<sep>> \o p \o <<sep>> \o p \o <<sep>> \o p \o <<sep>> \o p \o <<sep>> \o p

SampleBytes == {0, 104}

Payloads == UNION { [1..n -> SampleBytes] : n \in 0..MaxPayload }

\* the frames Frame.__init__ accepts and to_bytes encodes, in the model; the last one
\* has fragment_no = 0, which the constructor admits
CodecInputs ==
    { Frame_init(dst, MacTexto(<<"A", "A">>, ":"), t, TID, 1, 2, d) :
        dst \in { MacTexto(<<"B", "B">>, ":"), MacTexto(<<"c", "c">>, ":"), MacTexto(<<"0", "1">>, "-") },
        t \in {"MSG", "FILE"}, d \in Payloads }
    \cup { Frame_init(MacTexto(<<"B", "B">>, ":"), MacTexto(<<"A", "A">>, ":"), "FILE", TID, 0, 2, <<>>) }

\* the bytes with bit i inverted; bit 0 is the most significant bit of the first byte
FlipBit(bytes, i) ==
    LET k == (i \div 8) + 1
        w == 2 ^ (7 - (i % 8))
    IN [bytes EXCEPT ![k] = IF (@ \div w) % 2 = 1 THEN @ - w ELSE @ + w]

Encode(F) ==
    /\ last = "init"
    /\ FrameOk(F.msg_type, F.transfer_id, F.fragment_no, F.total_frags)
    /\ to_bytes(F).ok
    /\ cod_frame' = F
    /\ cod_raw' = to_bytes(F).bytes
    /\ cod_bit' = 0 - 1
    /\ cod_result' = [err |-> "none", frame |-> NoFrame]
    /\ last' = "encode"

Flip(i) ==
    /\ last = "encode"
    /\ i < 8 * (HEADER_SIZE + Len(cod_frame.data))
    /\ cod_raw' = FlipBit(cod_raw, i)
    /\ cod_bit' = i
    /\ last' = "flip"
    /\ UNCHANGED <<cod_frame, cod_result>>

Decode ==
    /\ last \in {"encode", "flip"}
    /\ cod_result' = from_bytes(cod_raw)
    /\ last' = "decode"
    /\ UNCHANGED <<cod_frame, cod_raw, cod_bit>>

CodecRest ==
    /\ llamada' = NoLlamada
    /\ UNCHANGED <<ackVars, asmVars, ackHist, presVars, presHist, corriendo, stopVars, stopHist, wireVars,
                   sockVars, sockHist, fsVars, nuevos>>

NextCodec ==
    \/ \E F \in CodecInputs : Encode(F) /\ CodecRest
    \/ \E i \in 0..(8 * (HEADER_SIZE + MaxPayload) - 1) : Flip(i) /\ CodecRest
    \/ Decode /\ CodecRest

SpecCodec == Init /\ [][NextCodec]_vars

(***************************************************************************)
(* Specification of the retry manager with a sender that writes to the     *)
(* socket; every key is registered at most once                            *)
(***************************************************************************)
\* the text of the MACs of the model
Chars(mac) ==
    CASE mac = MY_MAC -> MacTexto(<<"A", "A">>, ":")
      [] mac = MAC_B -> MacTexto(<<"B", "B">>, ":")
      [] mac = MAC_C -> MacTexto(<<"C", "C">>, ":")
      [] mac = BROADCAST_MAC -> MacTexto(<<"F", "F">>, ":")

\* str.encode('utf-8') on the characters of the model
Ord(c) == CASE c = "h" -> 104 [] c = "y" -> 121 [] c = "a" -> 97 [] c = "x" -> 120 [] c = "|" -> 124

\* a frame of the model as the object the sender holds: MAC texts and payload bytes
EnLinea(f) == [f EXCEPT !.mac_dst = Chars(f.mac_dst), !.mac_src = Chars(f.mac_src),
                        !.data = [i \in 1..Len(f.data) |-> Ord(f.data[i])]]

\* SendingThread.run: get a frame, self._socket.send_frame(frame.to_bytes());
\* the peer's HearingThread.run decodes the bytes with Frame.from_bytes
SendWire ==
    /\ Send
    /\ escrito' = IF to_bytes(EnLinea(Head(cola_saliente))).ok /\ my_socket
                  THEN to_bytes(EnLinea(Head(cola_saliente))).bytes ELSE escrito
    /\ recibido' = IF to_bytes(EnLinea(Head(cola_saliente))).ok /\ my_socket
                   THEN from_bytes(escrito') ELSE recibido
    /\ primero' = LET k == Clave(Head(cola_saliente)) IN
                  IF k \in Claves /\ primero[k] = <<>> THEN [primero EXCEPT ![k] = escrito'] ELSE primero

WireRest == UNCHANGED <<asmVars, presVars, presHist, corriendo, stopVars, stopHist, codVars, sockVars, sockHist,
                        fsVars, nuevos>>

NextWire ==
    \/ \E in \in RegInputs : /\ resultado[Clave(in[1])] = "none"
                             /\ Register(in[1], in[2]) /\ AckObserve(0) /\ WireRest /\ UNCHANGED wireVars
    \/ Sweep /\ AckObserve(0) /\ WireRest /\ UNCHANGED wireVars
    \/ SendWire /\ AckObserve(0) /\ WireRest
    \/ Consume /\ AckObserve(0) /\ WireRest /\ UNCHANGED wireVars
    \/ Tick(TickStep) /\ AckObserve(0) /\ WireRest /\ UNCHANGED wireVars

SpecWire == Init /\ [][NextWire]_vars

(***************************************************************************)
(* Specification of the socket wrapper (MySocket): close, send_frame and   *)
(* receive_frame called from different threads.  close and                 *)
(* _get_socket_ref run under the wrapper's lock; s.send and s.recv run     *)
(* outside it, on the reference the caller obtained.                       *)
(***************************************************************************)
\* the ConnectionError raised by _get_socket_ref, by send_frame and by receive_frame
NoCreado == "ConnectionError: Socket no esta creado"
ErrorEnviando == "ConnectionError: Error enviando trama: Bad file descriptor"
ErrorDeEnvio == "ConnectionError: Error enviando trama: short write or network error"
ErrorRecibiendo == "ConnectionError: Error en receive_frame: Bad file descriptor"

\* MySocket.close, called by any thread
SockClose ==
    /\ n_close_calls < MaxClose
    /\ n_close_calls' = n_close_calls + 1
    /\ IF my_socket
       THEN /\ sock_fd' = FALSE
            /\ n_close' = n_close + 1
            /\ my_socket' = close(my_socket)
       ELSE UNCHANGED <<sock_fd, n_close, my_socket>>
    /\ last' = "close"
    /\ UNCHANGED <<tx_pc, rx_pc, tx_out, rx_out, n_tx>>

\* send_frame: s = self._get_socket_ref()
TxRef ==
    /\ tx_pc = "idle"
    /\ n_tx < MaxTx
    /\ IF my_socket
       THEN tx_pc' = "ref" /\ tx_out' = "pending"
       ELSE tx_pc' = "idle" /\ tx_out' = NoCreado
    /\ last' = "tx"
    /\ UNCHANGED <<my_socket, sock_fd, n_close, n_close_calls, rx_pc, rx_out, n_tx>>

\* send_frame: sent = s.send(frame); a short write and an OSError become ConnectionError
TxSend(entero) ==
    /\ tx_pc = "ref"
    /\ IF sock_fd
       THEN IF entero
            THEN tx_out' = "sent" /\ n_tx' = n_tx + 1
            ELSE tx_out' = ErrorDeEnvio /\ n_tx' = n_tx
       ELSE tx_out' = ErrorEnviando /\ n_tx' = n_tx
    /\ tx_pc' = "idle"
    /\ last' = "tx"
    /\ UNCHANGED <<my_socket, sock_fd, n_close, n_close_calls, rx_pc, rx_out>>

\* receive_frame: s = self._get_socket_ref()
RxRef ==
    /\ rx_pc = "idle"
    /\ IF my_socket
       THEN rx_pc' = "ref" /\ rx_out' = "pending"
       ELSE rx_pc' = "idle" /\ rx_out' = NoCreado
    /\ last' = "rx"
    /\ UNCHANGED <<my_socket, sock_fd, n_close, n_close_calls, tx_pc, tx_out, n_tx>>

\* receive_frame: s.recv(65535) is entered and waits for a frame or for the timeout
RxRecv ==
    /\ rx_pc = "ref"
    /\ IF sock_fd
       THEN rx_pc' = "recv" /\ rx_out' = "pending"
       ELSE rx_pc' = "idle" /\ rx_out' = ErrorRecibiendo
    /\ last' = "rx"
    /\ UNCHANGED <<my_socket, sock_fd, n_close, n_close_calls, tx_pc, tx_out, n_tx>>

\* receive_frame: s.recv returns bytes, raises socket.timeout (re-raised) or raises
\* OSError for a descriptor closed meanwhile (ConnectionError)
RxReturn(out) ==
    /\ rx_pc = "recv"
    /\ rx_out' = IF sock_fd THEN out ELSE ErrorRecibiendo
    /\ rx_pc' = "idle"
    /\ last' = "rx"
    /\ UNCHANGED <<my_socket, sock_fd, n_close, n_close_calls, tx_pc, tx_out, n_tx>>

SockRest ==
    /\ llamada' = NoLlamada
    /\ UNCHANGED <<ackVars, asmVars, ackHist, presVars, presHist, corriendo, codVars, wireVars, fsVars, nuevos,
                   app_running, stop_pc, vivos, sender_pc, fragment_queue, join_slept, stopHist>>

NextSock ==
    \/ SockClose /\ SockRest
    \/ TxRef /\ SockRest
    \/ \E entero \in BOOLEAN : TxSend(entero) /\ SockRest
    \/ RxRef /\ SockRest
    \/ RxRecv /\ SockRest
    \/ \E out \in {"data", "timeout"} : RxReturn(out) /\ SockRest

SpecSock == Init /\ [][NextSock]_vars

(***************************************************************************)
(* File sender (FileSender.start_transfer) on a regular file of S bytes.   *)
(* The bytes pos .. pos + n - 1 of the file are the chunk <<"bytes", pos,  *)
(* n>>; the payload of fragment 1 is the file name, "|" and the chunk.     *)
(***************************************************************************)
CHUNK_SIZE == 1400

FILENAME == "f.bin"

\* the file sizes of the model: around every multiple of CHUNK_SIZE up to MaxChunks chunks
FileSizes == { k * CHUNK_SIZE + d : k \in 0..MaxChunks, d \in {0, 1, CHUNK_SIZE - 1} }

\* AckManagerThread.get_next_transfer_id
get_next_transfer_id(n) == (n + 1) % 65536

\* f.read(CHUNK_SIZE) at position pos of a file of filesize bytes
read(filesize, pos) == <<"bytes", pos, Min(CHUNK_SIZE, filesize - pos)>>

\* start_transfer, up to the loop: the id, filesize and total_frags
FsStart(filesize, reliable) ==
    /\ fs_pc = "idle"
    /\ next_transfer_id' = get_next_transfer_id(next_transfer_id)
    /\ fs_transfer_id' = next_transfer_id'
    /\ fs_filesize' = filesize
    /\ fs_total_frags' = LET total_frags == (filesize + CHUNK_SIZE - 1) \div CHUNK_SIZE
                         IN IF total_frags = 0 THEN 1 ELSE total_frags
    /\ fs_reliable' = reliable
    /\ fs_fragment_no' = 1
    /\ fs_pos' = 0
    /\ fs_pc' = "loop"
    /\ last' = "start_transfer"
    /\ llamada' = NoLlamada
    /\ UNCHANGED <<esperando_ack, cola_saliente>>

\* start_transfer: one iteration of `for fragment_no in range(1, total_frags + 1)`,
\* or the end of the loop and the return
FsIter ==
    /\ fs_pc = "loop"
    /\ Len(cola_saliente) < MaxQueue
    /\ last' = "fragment"
    /\ UNCHANGED <<next_transfer_id, fs_transfer_id, fs_filesize, fs_total_frags, fs_reliable>>
    /\ IF fs_fragment_no > fs_total_frags
       THEN /\ fs_pc' = "done"
            /\ llamada' = NoLlamada
            /\ UNCHANGED <<esperando_ack, cola_saliente, fs_fragment_no, fs_pos>>
       ELSE
       LET chunk == read(fs_filesize, fs_pos)
           payload == IF fs_fragment_no = 1 THEN <<FILENAME, "|", chunk>> ELSE <<chunk>>
           frame == build_file(fs_transfer_id, payload, fs_fragment_no, MAC_B, fs_total_frags)
       IN
       IF chunk[3] = 0
       THEN /\ fs_pc' = "done"
            /\ llamada' = NoLlamada
            /\ UNCHANGED <<esperando_ack, cola_saliente, fs_fragment_no, fs_pos>>
       ELSE /\ IF fs_reliable
               THEN registrar_mensaje(frame, "fragmento")
               ELSE /\ cola_saliente' = Append(cola_saliente, frame)
                    /\ llamada' = NoLlamada
                    /\ UNCHANGED esperando_ack
            /\ fs_pos' = fs_pos + chunk[3]
            /\ IF fs_reliable /\ ~llamada'.ret
               THEN fs_pc' = "done" /\ fs_fragment_no' = fs_fragment_no
               ELSE fs_pc' = "loop" /\ fs_fragment_no' = fs_fragment_no + 1

\* the sender takes a frame while the transfer runs
FsSend ==
    /\ Send
    /\ UNCHANGED <<next_transfer_id, fs_pc, fs_transfer_id, fs_filesize, fs_total_frags, fs_reliable,
                   fs_fragment_no, fs_pos>>

\* history of a step: the frames the transfer put on cola_saliente
FileRest ==
    /\ fs_emitidos' = IF last' = "start_transfer" THEN <<>>
                      ELSE fs_emitidos \o Gained(cola_saliente, cola_saliente')
    /\ UNCHANGED <<cola_notificaciones, sweep_slept, asmVars, ackHist, presVars, presHist, corriendo,
                   stopVars, stopHist, codVars, wireVars, sockVars, sockHist, nuevos>>

NextFile ==
    \/ \E filesize \in FileSizes, reliable \in BOOLEAN : FsStart(filesize, reliable) /\ FileRest
    \/ FsIter /\ FileRest
    \/ FsSend /\ FileRest

SpecFile == Init /\ [][NextFile]_vars

(***************************************************************************)
(* Specification of the acknowledgement of a reliable file transfer: the   *)
(* fragments of a transfer and a message are registered, and the router    *)
(* takes the peer's ack and file_ack frames                                *)
(***************************************************************************)
\* the frames of a reliable transfer of two fragments, of a transfer of one, and a message
DoneInputs ==
    { <<build_file(TID, <<"a", "|", "x">>, 1, MAC_B, 2), "f1">>,
      <<build_file(TID, <<"y">>, 2, MAC_B, 2), "f2">>,
      <<build_file(TID + 1, <<"a", "|", "x">>, 1, MAC_B, 1), "g1">>,
      <<build_msg(TID, <<"h">>, MAC_B), "m">> }

\* the CTRL frames the peer answers with; file_ack|7|0 names the key of the message
DoneCtrl ==
    { Ctrl(MAC_B, <<"ack", "7">>),
      Ctrl(MAC_B, <<"ack", "8">>),
      Ctrl(MAC_B, <<"file_ack", "7", "0">>),
      Ctrl(MAC_B, <<"file_ack", "7", "1">>),
      Ctrl(MAC_B, <<"file_ack", "7", "2">>),
      Ctrl(MAC_B, <<"file_ack", "8", "1">>) }

\* the application registers a frame of the transfer
RegisterDone(frame, descripcion) ==
    /\ Len(cola_saliente) < MaxQueue
    /\ registrar_mensaje(frame, descripcion)
    /\ last' = "register"
    /\ UNCHANGED <<cola_notificaciones, sweep_slept>>

DoneRest == UNCHANGED <<asmVars, ackHist>> /\ Ajenos

NextDone ==
    \/ \E in \in DoneInputs : RegisterDone(in[1], in[2]) /\ DoneRest
    \/ \E f \in DoneCtrl : RouteCtrl(f) /\ DoneRest
    \/ Send /\ DoneRest
    \/ Consume /\ DoneRest

SpecDone == Init /\ [][NextDone]_vars

(***************************************************************************)
(* Specification of the retry manager's lock: registrar_mensaje (called by *)
(* the application's thread), handle_ack (called by the router's thread)   *)
(* and the scan of AckManagerThread.run, statement by statement, each      *)
(* inside `with self._lock`.  The clock of the model advances only while   *)
(* the sweeper sleeps: a scan is short against a step of the clock.        *)
(***************************************************************************)
\* a lock that lets every thread in
PuedeTomar_SinCerrojo == TRUE

\* threading.RLock: a thread other than the owner enters when the lock is free
PuedeTomar == lock_owner = "none"

LockInputs == { in \in RegInputs : in[1].mac_dst = MAC_B }

\* the key handle_ack computes for the CTRL frame the router dispatches
ClaveDeAck(f) ==
    IF f.data[1] = "ack" THEN <<Decimal[f.data[2]], 0>>
    ELSE <<Decimal[f.data[2]], Decimal[f.data[3]]>>

\* registrar_mensaje: the lock is taken, clave is computed and tested (lines 110-118)
LkRegEnter(frame, descripcion) ==
    /\ reg_pc = "idle" /\ PuedeTomar
    /\ n_reg < MaxReg
    /\ reg_in' = <<frame, descripcion>>
    /\ IF Clave(frame) \in Pendientes(esperando_ack)
       THEN /\ reg_pc' = "idle" /\ lock_owner' = lock_owner
            /\ llamada' = Llamada("registrar_mensaje", Clave(frame), FALSE)
       ELSE /\ reg_pc' = "insert" /\ lock_owner' = "app"
            /\ llamada' = NoLlamada
    /\ last' = "register"
    /\ UNCHANGED <<ackVars, ack_pc, ack_clave, sw_pc, sw_i, sw_expired>>

\* registrar_mensaje: self._esperando_ack[clave] = (time.time(), 0, frame, descripcion) (line 120)
LkRegInsert ==
    /\ reg_pc = "insert"
    /\ esperando_ack' = Append(Del(esperando_ack, Clave(reg_in[1])),
            [clave |-> Clave(reg_in[1]), timestamp |-> TimeNow, retries |-> 0,
             frame |-> reg_in[1], descripcion |-> reg_in[2]])
    /\ reg_pc' = "put"
    /\ llamada' = Llamada("registrar_mensaje", Clave(reg_in[1]), TRUE)
    /\ last' = "register"
    /\ UNCHANGED <<cola_saliente, cola_notificaciones, sweep_slept, lock_owner, reg_in, ack_pc, ack_clave,
                   sw_pc, sw_i, sw_expired>>

\* registrar_mensaje: self.cola_saliente.put(frame), return True, the lock is released (lines 121-123)
LkRegPut ==
    /\ reg_pc = "put"
    /\ Len(cola_saliente) < MaxQueue
    /\ cola_saliente' = Append(cola_saliente, reg_in[1])
    /\ reg_pc' = "idle"
    /\ lock_owner' = "none"
    /\ llamada' = NoLlamada
    /\ last' = "register"
    /\ UNCHANGED <<esperando_ack, cola_notificaciones, sweep_slept, reg_in, ack_pc, ack_clave,
                   sw_pc, sw_i, sw_expired>>

\* handle_ack: the lock is taken, clave is computed and looked up (lines 126-128, 139-141)
LkAckEnter(f) ==
    /\ ack_pc = "idle" /\ PuedeTomar
    /\ ack_clave' = ClaveDeAck(f)
    /\ IF ClaveDeAck(f) \in Pendientes(esperando_ack)
       THEN /\ ack_pc' = "del" /\ lock_owner' = "router"
            /\ llamada' = NoLlamada
       ELSE /\ ack_pc' = "idle" /\ lock_owner' = lock_owner
            /\ llamada' = Llamada("handle_ack", ClaveDeAck(f), FALSE)
    /\ last' = "route"
    /\ UNCHANGED <<ackVars, reg_pc, reg_in, sw_pc, sw_i, sw_expired>>

\* handle_ack: the entry is read and deleted, the notification put, the lock released (lines 129-138)
LkAckDel ==
    /\ ack_pc = "del"
    /\ Len(cola_notificaciones) < MaxNotif
    /\ handle_ack(ack_clave[1], ack_clave[2])
    /\ ack_pc' = "idle"
    /\ lock_owner' = "none"
    /\ last' = "route"
    /\ UNCHANGED <<cola_saliente, sweep_slept, reg_pc, reg_in, ack_clave, sw_pc, sw_i, sw_expired>>

\* AckManagerThread.run: the sleep ends and the clock is read (lines 149-150)
LkSwWake ==
    /\ sw_pc = "idle"
    /\ sweep_slept >= CHECK_INTERVAL
    /\ sw_pc' = "acquire"
    /\ llamada' = NoLlamada
    /\ last' = "wake"
    /\ UNCHANGED <<ackVars, lock_owner, reg_pc, reg_in, ack_pc, ack_clave, sw_i, sw_expired>>

\* AckManagerThread.run: the lock is taken, expired_claves = [] (lines 152-153)
LkSwEnter ==
    /\ sw_pc = "acquire" /\ PuedeTomar
    /\ lock_owner' = "sweeper"
    /\ sw_pc' = "scan"
    /\ sw_i' = 1
    /\ sw_expired' = {}
    /\ llamada' = NoLlamada
    /\ last' = "scan"
    /\ UNCHANGED <<ackVars, reg_pc, reg_in, ack_pc, ack_clave>>

\* AckManagerThread.run: one entry of the scan (lines 154-169), or the end of the loop
LkSwScan ==
    /\ sw_pc = "scan"
    /\ llamada' = NoLlamada
    /\ last' = "scan"
    /\ UNCHANGED <<sweep_slept, lock_owner, reg_pc, reg_in, ack_pc, ack_clave>>
    /\ IF sw_i > Len(esperando_ack)
       THEN /\ sw_pc' = "delete"
            /\ UNCHANGED <<esperando_ack, cola_saliente, cola_notificaciones, sw_i, sw_expired>>
       ELSE
       LET e == esperando_ack[sw_i] IN
       /\ sw_pc' = "scan"
       /\ sw_i' = sw_i + 1
       /\ IF Reintentar(e, TimeNow)
          THEN /\ Len(cola_saliente) < MaxQueue
               /\ esperando_ack' = [esperando_ack EXCEPT ![sw_i] =
                                       [e EXCEPT !.timestamp = TimeNow, !.retries = e.retries + 1]]
               /\ cola_saliente' = Append(cola_saliente, FrameDe(e))
               /\ UNCHANGED <<cola_notificaciones, sw_expired>>
          ELSE IF Agotada(e, TimeNow)
          THEN /\ Len(cola_notificaciones) < MaxNotif
               /\ sw_expired' = sw_expired \cup {e.clave}
               /\ cola_notificaciones' = Append(cola_notificaciones, NotaError(e))
               /\ UNCHANGED <<esperando_ack, cola_saliente>>
          ELSE UNCHANGED <<esperando_ack, cola_saliente, cola_notificaciones, sw_expired>>

\* AckManagerThread.run: the expired keys are deleted and the lock released (lines 171-172)
LkSwDelete ==
    /\ sw_pc = "delete"
    /\ esperando_ack' = SelectSeq(esperando_ack, LAMBDA e : e.clave \notin sw_expired)
    /\ sw_pc' = "idle"
    /\ lock_owner' = "none"
    /\ sweep_slept' = 0
    /\ llamada' = NoLlamada
    /\ last' = "sweep"
    /\ UNCHANGED <<cola_saliente, cola_notificaciones, reg_pc, reg_in, ack_pc, ack_clave, sw_i, sw_expired>>

\* d seconds pass while the sweeper sleeps
LkTick(d) ==
    /\ sw_pc = "idle"
    /\ sweep_slept < CHECK_INTERVAL
    /\ Tick(d)

LockRest ==
    /\ AckObserve(0)
    /\ UNCHANGED <<asmVars, presVars, presHist, corriendo, stopVars, stopHist, codVars, wireVars,
                   sockVars, sockHist, fsVars, routeVars, listenVars, haltVars, finVars>>

LockIdle == UNCHANGED lockVars

NextLock ==
    \/ \E in \in LockInputs : LkRegEnter(in[1], in[2]) /\ LockRest
    \/ LkRegInsert /\ LockRest
    \/ LkRegPut /\ LockRest
    \/ \E f \in AckInputs : LkAckEnter(f) /\ LockRest
    \/ LkAckDel /\ LockRest
    \/ LkSwWake /\ LockRest
    \/ LkSwEnter /\ LockRest
    \/ LkSwScan /\ LockRest
    \/ LkSwDelete /\ LockRest
    \/ Send /\ LockIdle /\ LockRest
    \/ Consume /\ LockIdle /\ LockRest
    \/ LkTick(TickStep) /\ LockIdle /\ LockRest

SpecLock == Init /\ [][NextLock]_vars

(***************************************************************************)
(* Specification of the router (RouterThread.run) between the inbound      *)
(* queue, which the listener fills, and the outbound queue, the            *)
(* assembler's queue, the peer table, the retry manager and the            *)
(* application's queue                                                     *)
(***************************************************************************)
\* f"{n}" for the numbers of a CTRL payload
Texto(n) == CHOOSE s \in DOMAIN Decimal : Decimal[s] = n

\* FrameFactory.build_file_ack on the local factory; id is what _gen_id returns
build_file_ack(id, id_mensaje, fragment_no, mac_dst) ==
    Frame(mac_dst, MY_MAC, "CTRL", id, 1, 1, <<"file_ack", Texto(id_mensaje), Texto(fragment_no)>>)

\* a router that acknowledges every FILE frame it sees
EsParaMi_Siempre(frame) == TRUE

\* RouterThread.run: frame.mac_dst == self.my_mac
EsParaMi(frame) == frame.mac_dst = MY_MAC

\* the frames the listener lets through: dst is the local MAC or the broadcast MAC
InboundInputs ==
    { FileFrame(MAC_B, 1, 2, <<"a", "|", "x">>),
      [FileFrame(MAC_C, 1, 2, <<"a", "|", "x">>) EXCEPT !.mac_dst = BROADCAST_MAC],
      Beacon(MAC_B, <<"u", "online">>),
      Ctrl(MAC_B, <<"ack", "7">>),
      Frame(MY_MAC, MAC_B, "MSG", TID, 1, 1, <<"h">>) }

\* HearingThread.run: self.cola_entrante.put(frame)
RtListen(frame) ==
    /\ Len(cola_entrante) < MaxIn
    /\ cola_entrante' = Append(cola_entrante, frame)
    /\ last' = "listen"
    /\ llamada' = NoLlamada
    /\ UNCHANGED <<ackVars, asmVars, presVars, presHist, fragment_queue, app_msg_queue>>

\* RouterThread.run: one frame is taken from cola_entrante and dispatched on its type
RtRoute ==
    /\ cola_entrante # <<>>
    /\ cola_entrante' = Tail(cola_entrante)
    /\ UNCHANGED asmVars
    /\ LET frame == Head(cola_entrante) IN
       IF frame.msg_type = "FILE"
       THEN /\ Len(cola_saliente) < MaxQueue
            /\ Len(fragment_queue) < MaxQueue
            /\ \E id \in GenIds :
                  cola_saliente' = IF EsParaMi(frame)
                                   THEN Append(cola_saliente,
                                               build_file_ack(id, frame.transfer_id, frame.fragment_no,
                                                              frame.mac_src))
                                   ELSE cola_saliente
            /\ fragment_queue' = Append(fragment_queue, frame)
            /\ last' = "route"
            /\ llamada' = NoLlamada
            /\ UNCHANGED <<esperando_ack, cola_notificaciones, sweep_slept, presVars, presHist, app_msg_queue>>
       ELSE IF frame.msg_type = "BROADCAST"
       THEN RouteBeacon(frame) /\ UNCHANGED <<fragment_queue, app_msg_queue>>
       ELSE IF frame.msg_type = "CTRL"
       THEN RouteCtrl(frame) /\ UNCHANGED <<presVars, presHist, fragment_queue, app_msg_queue>>
       ELSE /\ Len(app_msg_queue) < MaxQueue
            /\ app_msg_queue' = Append(app_msg_queue, frame)
            /\ last' = "route"
            /\ llamada' = NoLlamada
            /\ UNCHANGED <<ackVars, presVars, presHist, fragment_queue>>

\* FileAssemblerManagerThread.run: a fragment is taken from fragment_queue and processed
RtAsm(io) ==
    /\ fragment_queue # <<>>
    /\ fragment_queue' = Tail(fragment_queue)
    /\ AsmProcess(Head(fragment_queue), io)
    /\ UNCHANGED <<ackVars, presVars, presHist, cola_entrante, app_msg_queue>>

\* SendingThread.run takes a frame from cola_saliente
RtSend ==
    /\ Send
    /\ UNCHANGED <<asmVars, presVars, presHist, cola_entrante, fragment_queue, app_msg_queue>>

\* App._consume_messages takes a frame from app_msg_queue
RtApp ==
    /\ app_msg_queue # <<>>
    /\ app_msg_queue' = Tail(app_msg_queue)
    /\ last' = "app"
    /\ llamada' = NoLlamada
    /\ UNCHANGED <<ackVars, asmVars, presVars, presHist, cola_entrante, fragment_queue>>

RouteRest ==
    UNCHANGED <<ackHist, corriendo, app_running, stop_pc, vivos, sender_pc, my_socket, join_slept, stopHist,
                codVars, wireVars, sockVars, sockHist, fsVars, lockVars, listenVars, haltVars, finVars>>

NextRoute ==
    \/ \E f \in InboundInputs : RtListen(f) /\ RouteRest
    \/ RtRoute /\ RouteRest
    \/ RtAsm(TRUE) /\ RouteRest
    \/ RtSend /\ RouteRest
    \/ RtApp /\ RouteRest

SpecRoute == Init /\ [][NextRoute]_vars

(***************************************************************************)
(* Specification of the listener (HearingThread.run) over                  *)
(* MySocket.receive_frame, with the router and the application's consumer  *)
(* taking what it puts on the inbound queue.  The user does not stop the   *)
(* engine in this specification.                                           *)
(***************************************************************************)
\* the ConnectionError receive_frame raises for an OSError of an open socket
ErrorDeRed == "ConnectionError: Error en receive_frame: Network is down"

\* the frames peers put on the link, and the MACs they are addressed to
ListenFrames ==
    { Frame(dst, MAC_B, "MSG", TID, 1, 1, d) : dst \in {MY_MAC, MAC_C, BROADCAST_MAC}, d \in {<<"h">>, <<>>} }

Encoded(f) == to_bytes(EnLinea(f)).bytes

\* what s.recv returns: encoded frames, one of them padded by the link to its minimum
\* length, one with a bit of its dst, of its type or of its payload inverted, a cut
\* one, and the empty buffer
RawInputs ==
    { Encoded(f) : f \in ListenFrames }
    \cup { Encoded(Frame(MY_MAC, MAC_B, "MSG", TID, 1, 1, <<"h">>)) \o <<0, 0>> }
    \cup { FlipBit(Encoded(Frame(MY_MAC, MAC_B, "MSG", TID, 1, 1, <<"h">>)), i) :
             i \in {7, 8 * 14 + 5, 8 * HEADER_SIZE} }
    \cup { SubSeq(Encoded(Frame(MY_MAC, MAC_B, "MSG", TID, 1, 1, <<"h">>)), 1, HEADER_SIZE), <<>> }

\* the frame object of the model for a decoded frame
DeLinea(F) ==
    [F EXCEPT !.mac_dst = CHOOSE m \in {MY_MAC, MAC_B, MAC_C, BROADCAST_MAC} : Chars(m) = F.mac_dst,
              !.mac_src = CHOOSE m \in {MY_MAC, MAC_B, MAC_C, BROADCAST_MAC} : Chars(m) = F.mac_src,
              !.data = [i \in 1..Len(F.data) |-> CHOOSE c \in {"h", "y", "a", "x", "|"} : Ord(c) = F.data[i]]]

\* a listener that lets every decoded frame through
EsDestino_Promiscuo(F) == TRUE

\* HearingThread.run: frame.mac_dst in (self._socket.mac, "FF:FF:FF:FF:FF:FF")
EsDestino(F) == F.mac_dst \in {Chars(MY_MAC), Chars(BROADCAST_MAC)}

\* HearingThread.run: the loop test; the thread ends when the flag is cleared
HearLoop ==
    /\ hear_pc = "loop" /\ "listener" \in vivos
    /\ IF corriendo["listener"]
       THEN hear_pc' = "call" /\ UNCHANGED vivos
       ELSE hear_pc' = "ended" /\ vivos' = vivos \ {"listener"}
    /\ last' = "listener"
    /\ UNCHANGED <<corriendo, cola_entrante, hear_raw, hear_dec, my_socket, sockVars, sockHist>>

\* HearingThread.run: self._socket.receive_frame() is called and runs up to its return
HearRef ==
    /\ hear_pc = "call" /\ rx_out = "pending"
    /\ RxRef
    /\ UNCHANGED <<corriendo, vivos, cola_entrante, hear_pc, hear_raw, hear_dec>>

HearRecv ==
    /\ hear_pc = "call"
    /\ RxRecv
    /\ UNCHANGED <<corriendo, vivos, cola_entrante, hear_pc, hear_raw, hear_dec>>

HearReturn(out) ==
    /\ hear_pc = "call"
    /\ RxReturn(out)
    /\ UNCHANGED <<corriendo, vivos, cola_entrante, hear_pc, hear_raw, hear_dec>>

\* HearingThread.run: what follows the call: the buffer is decoded and filtered,
\* socket.timeout continues the loop, ConnectionError calls self.stop()
HearHandle(raw) ==
    /\ hear_pc = "call" /\ rx_pc = "idle" /\ rx_out # "pending"
    /\ hear_pc' = "loop"
    /\ rx_out' = "pending"
    /\ last' = "listener"
    /\ UNCHANGED <<vivos, my_socket, sock_fd, n_close_calls, tx_pc, rx_pc, tx_out, sockHist>>
    /\ IF rx_out = "data"
       THEN /\ Len(cola_entrante) < MaxIn
            /\ hear_raw' = raw
            /\ hear_dec' = IF raw = <<>> THEN Fallo("empty") ELSE from_bytes(raw)
            /\ cola_entrante' = IF hear_dec'.err = "none" /\ EsDestino(hear_dec'.frame)
                                THEN Append(cola_entrante, DeLinea(hear_dec'.frame))
                                ELSE cola_entrante
            /\ UNCHANGED corriendo
       ELSE IF rx_out = "timeout"
       THEN UNCHANGED <<corriendo, cola_entrante, hear_raw, hear_dec>>
       ELSE /\ corriendo' = [corriendo EXCEPT !["listener"] = FALSE]
            /\ UNCHANGED <<cola_entrante, hear_raw, hear_dec>>

ListenRest ==
    /\ llamada' = NoLlamada
    /\ UNCHANGED <<ackVars, asmVars, ackHist, presVars, presHist, app_running, stop_pc, sender_pc,
                   fragment_queue, join_slept, stopHist, codVars, wireVars, fsVars, lockVars, app_msg_queue,
                   haltVars, finVars>>

NextListen ==
    \/ HearLoop /\ ListenRest
    \/ HearRef /\ ListenRest
    \/ HearRecv /\ ListenRest
    \/ \E out \in {"data", "timeout", ErrorDeRed} : HearReturn(out) /\ ListenRest
    \/ \E raw \in RawInputs : HearHandle(raw) /\ ListenRest
    \/ RtRoute /\ RouteRest
    \/ RtApp /\ RouteRest

SpecListen == Init /\ [][NextListen]_vars /\ WF_vars(NextListen)

(***************************************************************************)
(* Specification of the six worker loops during a shutdown.                *)
(*                                                                         *)
(* A worker in vivos other than the sender is inside the call its loop     *)
(* blocks in: receive_frame under the socket's timeout of 1 s,             *)
(* Queue.get(timeout=1.0), time.sleep.  One step of it is the return of    *)
(* that call, the body of the loop and the next test of `while running`,   *)
(* after which the worker is inside the call again or its run() has        *)
(* returned.  The sender's position is sender_pc.  The queues are          *)
(* unbounded in the code: the steps below put without waiting, and the     *)
(* listener hears at most MaxHeard frames.  Of App.stop the steps up to    *)
(* the last stop() are taken; the joins that follow change nothing a       *)
(* worker reads, and the closed socket they end with is the listener's     *)
(* ConnectionError.                                                        *)
(***************************************************************************)
\* Queue.get without a timeout never returns from an empty queue
GetVence_SinPlazo == FALSE

\* Queue.get(timeout=1.0) raises queue.Empty once the queue has stayed empty for a second
GetVence == TRUE

\* `while self._running` after the body: the thread of w ends when its flag is cleared
Sigue(w, flags) == IF flags[w] THEN vivos ELSE vivos \ {w}

\* how receive_frame ends in the listener: with the bytes of a frame for this host, with
\* socket.timeout, or with ConnectionError (the socket was closed at the end of the
\* shutdown, or the interface failed)
HaltOuts == {"data", "timeout", "error"}

\* the frames heard during a shutdown
HaltInputs == { f \in InboundInputs : f.mac_dst = MY_MAC /\ f.msg_type = "FILE" }

\* HearingThread.run: receive_frame returns or raises; frame is what from_bytes decodes
HaltHear(out, frame) ==
    /\ "listener" \in vivos
    /\ IF out = "error"
       THEN /\ corriendo' = [corriendo EXCEPT !["listener"] = FALSE]
            /\ UNCHANGED <<cola_entrante, oidos>>
       ELSE IF out = "timeout"
       THEN UNCHANGED <<corriendo, cola_entrante, oidos>>
       ELSE /\ oidos < MaxHeard
            /\ cola_entrante' = Append(cola_entrante, frame)
            /\ oidos' = oidos + 1
            /\ UNCHANGED corriendo
    /\ vivos' = Sigue("listener", corriendo')
    /\ last' = last
    /\ llamada' = NoLlamada
    /\ UNCHANGED <<ackVars, asmVars, presVars, presHist, fragment_queue, app_msg_queue>>

\* AckManagerThread.run: time.sleep(CHECK_INTERVAL) has ended, and the table is scanned
HaltSweep ==
    /\ "retry" \in vivos
    /\ sweep(TimeNow)
    /\ vivos' = Sigue("retry", corriendo)
    /\ last' = last
    /\ UNCHANGED <<sweep_slept, asmVars, presVars, presHist, corriendo, fragment_queue, routeVars, oidos>>

\* OnlineManager.run: time.sleep(HELLO_INTERVAL) has ended; at the loop test the thread
\* ends, or queues a beacon, runs the cleanup when due, and sleeps again
HaltBeacon ==
    /\ "presence" \in vivos
    /\ vivos' = Sigue("presence", corriendo)
    /\ IF corriendo["presence"]
       THEN /\ Len(cola_saliente) < MaxBeacon
            /\ \E id \in GenIds : cola_saliente' = Append(cola_saliente, build_broadcast_online(id))
            /\ IF (TimeNow - om_last_cleanup) > OM_CLEANUP_INTERVAL
               THEN /\ peers' = cleanup_peers(peers, TimeNow)
                    /\ om_last_cleanup' = TimeNow
               ELSE UNCHANGED <<peers, om_last_cleanup>>
       ELSE UNCHANGED <<cola_saliente, peers, om_last_cleanup>>
    /\ last' = last
    /\ llamada' = NoLlamada
    /\ UNCHANGED <<esperando_ack, cola_notificaciones, sweep_slept, asmVars, om_slept, presHist,
                   corriendo, fragment_queue, routeVars, oidos>>

\* FileAssemblerManagerThread.run: fragment_queue.get(timeout=1.0) returns a fragment or
\* the sentinel, or raises queue.Empty
HaltAsm(io) ==
    /\ "assembler" \in vivos
    /\ IF fragment_queue = <<>>
       THEN /\ GetVence
            /\ IF (TimeNow - asm_last_cleanup) > ASM_CLEANUP_INTERVAL
               THEN /\ active_transfers' = cleanup_timed_out_transfers(active_transfers, TimeNow)
                    /\ asm_last_cleanup' = TimeNow
               ELSE UNCHANGED <<active_transfers, asm_last_cleanup>>
            /\ vivos' = Sigue("assembler", corriendo)
            /\ last' = last
            /\ llamada' = NoLlamada
            /\ UNCHANGED <<files, fragment_queue>>
       ELSE /\ fragment_queue' = Tail(fragment_queue)
            /\ IF Head(fragment_queue) = Sentinel
               THEN /\ vivos' = vivos \ {"assembler"}
                    /\ last' = last
                    /\ llamada' = NoLlamada
                    /\ UNCHANGED asmVars
               ELSE /\ AsmProcess(Head(fragment_queue), io)
                    /\ vivos' = Sigue("assembler", corriendo)
    /\ UNCHANGED <<ackVars, presVars, presHist, corriendo, routeVars, oidos>>

\* RouterThread.run: cola_entrante.get(timeout=1.0) returns a frame, which is dispatched
\* on its type, or raises queue.Empty
HaltRoute ==
    /\ "router" \in vivos
    /\ IF cola_entrante = <<>>
       THEN /\ GetVence
            /\ last' = last
            /\ llamada' = NoLlamada
            /\ UNCHANGED <<ackVars, presVars, presHist, fragment_queue, routeVars>>
       ELSE /\ cola_entrante' = Tail(cola_entrante)
            /\ LET frame == Head(cola_entrante) IN
               IF frame.msg_type = "FILE"
               THEN /\ \E id \in GenIds :
                          cola_saliente' = IF EsParaMi(frame)
                                           THEN Append(cola_saliente,
                                                       build_file_ack(id, frame.transfer_id,
                                                                      frame.fragment_no, frame.mac_src))
                                           ELSE cola_saliente
                    /\ fragment_queue' = Append(fragment_queue, frame)
                    /\ last' = last
                    /\ llamada' = NoLlamada
                    /\ UNCHANGED <<esperando_ack, cola_notificaciones, sweep_slept, presVars, presHist,
                                   app_msg_queue>>
               ELSE IF frame.msg_type = "BROADCAST"
               THEN RouteBeacon(frame) /\ UNCHANGED <<fragment_queue, app_msg_queue>>
               ELSE IF frame.msg_type = "CTRL"
               THEN RouteCtrl(frame) /\ UNCHANGED <<presVars, presHist, fragment_queue, app_msg_queue>>
               ELSE /\ app_msg_queue' = Append(app_msg_queue, frame)
                    /\ last' = last
                    /\ llamada' = NoLlamada
                    /\ UNCHANGED <<ackVars, presVars, presHist, fragment_queue>>
    /\ vivos' = Sigue("router", corriendo)
    /\ UNCHANGED <<asmVars, corriendo, oidos>>

\* what a step of a worker loop leaves alone
HaltRest ==
    UNCHANGED <<ackHist, app_running, stop_pc, sender_pc, my_socket, join_slept, stopHist, codVars,
                wireVars, sockVars, sockHist, fsVars, lockVars, listenVars, finVars>>

\* what a step of the sender leaves alone; the frames sent are not recorded here
HaltSent ==
    /\ llamada' = NoLlamada
    /\ UNCHANGED <<esperando_ack, cola_notificaciones, sweep_slept, asmVars, ackHist, presVars, presHist,
                   stopHist, tardios>>

\* the steps of one worker
Paso(w) ==
    CASE w = "sender" -> (SenderLoop \/ SenderGet) /\ HaltSent
      [] w = "presence" -> HaltBeacon /\ HaltRest
      [] w = "listener" -> (\E out \in HaltOuts, f \in HaltInputs : HaltHear(out, f)) /\ HaltRest
      [] w = "retry" -> HaltSweep /\ HaltRest
      [] w = "assembler" -> (\E io \in BOOLEAN : HaltAsm(io)) /\ HaltRest
      [] w = "router" -> HaltRoute /\ HaltRest

NextHalt ==
    \/ StopBegin /\ StopRest
    \/ StopOffline /\ StopRest
    \/ StopSignal /\ StopRest
    \/ SenderLoop /\ HaltSent
    \/ SenderGet /\ HaltSent
    \/ HaltBeacon /\ HaltRest
    \/ \E out \in HaltOuts, f \in HaltInputs : HaltHear(out, f) /\ HaltRest
    \/ HaltSweep /\ HaltRest
    \/ \E io \in BOOLEAN : HaltAsm(io) /\ HaltRest
    \/ HaltRoute /\ HaltRest

\* every worker thread that can take a step does so in the end: the blocking calls
\* return by their timeouts
SpecHalt == Init /\ [][NextHalt]_vars /\ \A w \in Workers : WF_vars(Paso(w))

(***************************************************************************)
(* Claims about the retry manager                                          *)
(***************************************************************************)
Retries(k) == Entrada(esperando_ack, k).retries

\* C1: a registered frame that is never acknowledged is put on the outbound
\* queue MAX_RETRIES + 1 = 4 times in all (while it is pending it has been put
\* retries + 1 times, never more than 4); the entry leaves the table by
\* exhaustion only after the 4th put, with exactly one failure notification
\* that names the frame's destination MAC, and it is not put again afterwards.
C1_RetryExhaustion ==
    \A k \in Claves :
        /\ resultado[k] = "pending" =>
              /\ k \in Pendientes(esperando_ack)
              /\ puestos[k] = Retries(k) + 1
              /\ puestos[k] <= MAX_RETRIES + 1
              /\ fallos[k] = 0
        /\ resultado[k] = "failed" =>
              /\ k \notin Pendientes(esperando_ack)
              /\ puestos[k] = MAX_RETRIES + 1
              /\ fallos[k] = 1
        /\ resultado[k] \in {"none", "acked"} => k \notin Pendientes(esperando_ack)

C1_Witness ==
    \E k \in Claves : resultado[k] = "failed" /\ puestos[k] = 4 /\ fallos[k] = 1

\* C2: a step in which registrar_mensaje(F) returns true for a key that was not
\* pending leaves F's key in the table with retries = 0 and frame F, and
\* appends exactly one copy of F to the outbound queue.
C2_RegisterPost ==
    [][ \A in \in RegInputs :
          ( /\ Register(in[1], in[2])
            /\ llamada'.ret
            /\ Clave(in[1]) \notin Pendientes(esperando_ack) )
          => /\ Clave(in[1]) \in Pendientes(esperando_ack')
             /\ Entrada(esperando_ack', Clave(in[1])).retries = 0
             /\ Entrada(esperando_ack', Clave(in[1])).frame = in[1]
             /\ Len(esperando_ack') = Len(esperando_ack) + 1
             /\ Gained(cola_saliente, cola_saliente') = <<in[1]>> ]_vars

C2_Witness ==
    /\ llamada.fn = "registrar_mensaje" /\ llamada.ret
    /\ llamada.clave \in Pendientes(esperando_ack)
    /\ Retries(llamada.clave) = 0
    /\ Len(esperando_ack) = 2
    /\ cola_saliente # <<>>
    /\ cola_saliente[Len(cola_saliente)] = Entrada(esperando_ack, llamada.clave).frame

\* C3: handle_ack on a pending key removes it and returns true; from then on,
\* until the key is registered again, no step puts a frame of that key on the
\* outbound queue, none emits a failure notification that is not about an
\* entry pending at that step, and the key stays out of the table.
C3_AckStops ==
    [][ \A k \in Claves :
          /\ (llamada'.fn = "handle_ack" /\ llamada'.clave = k /\ k \in Pendientes(esperando_ack))
                => (llamada'.ret /\ k \notin Pendientes(esperando_ack'))
          /\ (resultado[k] = "acked" /\ ~Registered(k))
                => /\ puestos'[k] = puestos[k]
                   /\ k \notin Pendientes(esperando_ack')
                   /\ resultado'[k] = "acked"
                   /\ \A n \in { Gained(cola_notificaciones, cola_notificaciones')[i] :
                                   i \in 1..Len(Gained(cola_notificaciones, cola_notificaciones')) } :
                          n.tipo = "error" =>
                             \E i \in 1..Len(esperando_ack) :
                                 esperando_ack[i].clave # k /\ n = NotaError(esperando_ack[i]) ]_vars

C3_Witness ==
    \E k \in Claves :
        /\ resultado[k] = "acked" /\ puestos[k] >= 2
        /\ last = "sweep"
        /\ \E j \in Claves : resultado[j] = "pending" /\ puestos[j] >= 2

\* C5: the size of the pending table is the number of registrations that
\* returned true minus the handle_ack calls that returned true minus the
\* entries removed by retry exhaustion.
C5_TableSize == Len(esperando_ack) = n_reg - n_ack - n_exp

C5_Witness == n_reg >= 2 /\ n_ack >= 1 /\ n_exp >= 1

\* C6: routing the CTRL frame file_ack|X|1 while (X, 0) is pending and (X, 1)
\* is not calls handle_ack with key (X, 1), which returns false and leaves
\* the table, the MSG entry included, as it was; the entry goes on being
\* retried (C1 holds of it).
C6_PairKey ==
    [][ \A f \in CtrlInputs :
          ( /\ RouteCtrl(f)
            /\ f.data = <<"file_ack", "7", "1">>
            /\ <<TID, 0>> \in Pendientes(esperando_ack)
            /\ <<TID, 1>> \notin Pendientes(esperando_ack) )
          => /\ esperando_ack' = esperando_ack
             /\ llamada' = Llamada("handle_ack", <<TID, 1>>, FALSE)
             /\ resultado'[<<TID, 0>>] = "pending" ]_vars

C6_Witness ==
    /\ llamada = Llamada("handle_ack", <<TID, 1>>, FALSE)
    /\ <<TID, 0>> \in Pendientes(esperando_ack)
    /\ <<TID, 1>> \notin Pendientes(esperando_ack)
    /\ Entrada(esperando_ack, <<TID, 0>>).frame.msg_type = "MSG"
    /\ Retries(<<TID, 0>>) >= 1

\* C4 as stated: no entry is pending more than TIMEOUT * (MAX_RETRIES + 1) = 60
\* seconds after its registration.
C4_Original ==
    \A k \in Pendientes(esperando_ack) : transcurrido[k] <= TIMEOUT * (MAX_RETRIES + 1)

\* C4 amended: with a scan every CHECK_INTERVAL seconds and the strict test,
\* no entry is pending more than (TIMEOUT + CHECK_INTERVAL) * (MAX_RETRIES + 1)
\* = 68 seconds after its registration.
C4_Amended ==
    \A k \in Pendientes(esperando_ack) :
        transcurrido[k] <= (TIMEOUT + CHECK_INTERVAL) * (MAX_RETRIES + 1)

C4_Witness ==
    \E k \in Pendientes(esperando_ack) :
        /\ Retries(k) = MAX_RETRIES
        /\ transcurrido[k] > TIMEOUT * (MAX_RETRIES + 1)
        /\ last = "tick"

(***************************************************************************)
(* Claims about the file assembler                                         *)
(***************************************************************************)
\* the bytes of a complete record of n fragments, index by index
EnOrden(registro, n) ==
    CASE n = 1 -> registro[1]
      [] n = 2 -> registro[1] \o registro[2]
      [] n = 3 -> registro[1] \o registro[2] \o registro[3]
      [] n = 4 -> registro[1] \o registro[2] \o registro[3] \o registro[4]
      [] OTHER -> <<>>

\* the step wrote exactly one new file, with these bytes, and touched no other
EscribeUno(contenido) ==
    /\ \A p \in DOMAIN files : p \in DOMAIN files' /\ files'[p] = files[p]
    /\ Cardinality(DOMAIN files' \ DOMAIN files) = 1
    /\ \A p \in DOMAIN files' \ DOMAIN files : files'[p] = contenido

\* the part of a first fragment after its first "|"
Sufijo(data) == SubSeq(data, IndexOf(data, "|") + 1, Len(data))

PrimeroValido(f) ==
    /\ f.fragment_no = 1
    /\ IndexOf(f.data, "|") > 0
    /\ Strip(SubSeq(f.data, 1, IndexOf(f.data, "|") - 1)) # <<>>

\* C7: when fragment 1 of a transfer is processed first and fragments 2..N
\* follow, each once, in any order, and writing the file does not fail: a step
\* that records a fragment writes a file exactly when the recorded indexes
\* become 1..N; the file holds the chunks 1..N in index order, chunk 1 being
\* the first payload after its "name|" prefix; the transfer then leaves the
\* table.  Before that, no file is written and the fragment is recorded.
C7_Assembly ==
    [][ \A f \in AsmInputs :
          /\ (TID \notin DOMAIN active_transfers /\ PrimeroValido(f) /\ AsmProcess(f, TRUE)) =>
                IF f.total_frags = 1
                THEN TID \notin DOMAIN active_transfers' /\ EscribeUno(Sufijo(f.data))
                ELSE /\ files' = files
                     /\ TID \in DOMAIN active_transfers'
                     /\ active_transfers'[TID].fragments = (1 :> Sufijo(f.data))
          /\ ( /\ TID \in DOMAIN active_transfers
               /\ f.total_frags = active_transfers[TID].total_frags
               /\ DOMAIN active_transfers[TID].fragments \subseteq 1..f.total_frags
               /\ f.fragment_no \in (2..f.total_frags) \ DOMAIN active_transfers[TID].fragments
               /\ AsmProcess(f, TRUE) ) =>
                LET registro == (f.fragment_no :> f.data) @@ active_transfers[TID].fragments IN
                IF DOMAIN registro = 1..f.total_frags
                THEN /\ TID \notin DOMAIN active_transfers'
                     /\ EscribeUno(EnOrden(registro, f.total_frags))
                ELSE /\ files' = files
                     /\ TID \in DOMAIN active_transfers'
                     /\ active_transfers'[TID].fragments = registro ]_vars

C7_Witness ==
    /\ last = "frag" /\ llamada.ret
    /\ TID \notin DOMAIN active_transfers
    /\ \E p \in DOMAIN files : files[p] = <<"x", "y", "w">>

\* C8: assembly is idempotent under duplicate fragments: from every reachable
\* state, delivering a fragment and then the same fragment again (also when
\* the first delivery completed the transfer) leaves the same files with the
\* same content as delivering it once.
C8_Idempotent ==
    \A f \in AsmInputs :
        LET una == process_fragment(active_transfers, files, f, TRUE)
            dos == process_fragment(una.active, una.files, f, TRUE)
        IN dos.files = una.files

\* C9: the fragment numbers recorded for an active transfer all lie in
\* 1..total_frags, so a transfer with total_frags recorded fragments has
\* one at each index of 1..total_frags.
C9_FragmentRange ==
    \A t \in DOMAIN active_transfers :
        /\ DOMAIN active_transfers[t].fragments \subseteq 1..active_transfers[t].total_frags
        /\ Cardinality(DOMAIN active_transfers[t].fragments) = active_transfers[t].total_frags
              => DOMAIN active_transfers[t].fragments = 1..active_transfers[t].total_frags

\* C10: active transfers are scoped to the sender: a fragment from one source
\* MAC, processed while a transfer of another source MAC with the same
\* transfer_id is active, is not recorded into that transfer and does not
\* complete it.
C10_SenderScoped ==
    [][ \A f \in AsmInputs, io \in BOOLEAN :
          ( /\ TID \in DOMAIN active_transfers
            /\ active_transfers[TID].mac_src # f.mac_src
            /\ f.fragment_no \in 1..f.total_frags
            /\ AsmProcess(f, io) )
          => /\ TID \in DOMAIN active_transfers'
             /\ active_transfers'[TID].mac_src = active_transfers[TID].mac_src
             /\ active_transfers'[TID].fragments = active_transfers[TID].fragments ]_vars

C12_OneOffline ==
    /\ n_offline <= 1
    /\ stop_pc[1] = "done" => n_offline = 1

\* C13: App.stop signals the workers in the order listener, sender, retry
\* manager, presence manager, assembler, router, then joins them in that
\* order; a join ends because the thread has ended or because its 2 s budget
\* is used up; the socket is closed only after the six stop() calls and the
\* six joins; and App.stop called again changes nothing.
C13_Shutdown ==
    [][ /\ \A i \in 1..Len(senalados') : i <= Len(Orden) /\ senalados'[i] = Orden[i]
        /\ \A i \in 1..Len(unidos') : i <= Len(Orden) /\ unidos'[i][1] = Orden[i]
        /\ Len(unidos') > 0 => Len(senalados') = Len(Orden)
        /\ Len(unidos') = Len(unidos) + 1 =>
              LET e == unidos'[Len(unidos')] IN
              \/ e[2] = "ended" /\ e[1] \notin vivos
              \/ e[2] = "timeout" /\ e[1] \in vivos /\ join_slept >= JOIN_TIMEOUT
        /\ ~my_socket' => Len(senalados) = Len(Orden) /\ Len(unidos) = Len(Orden)
        /\ last' = "stop_again" =>
              /\ ~app_running
              /\ UNCHANGED <<cola_saliente, fragment_queue, corriendo, my_socket, app_running,
                             stop_pc, senalados, unidos, n_offline>> ]_vars

C13_Witness ==
    /\ stop_pc[1] = "done" /\ ~my_socket
    /\ last = "stop_again"
    /\ \E i, j \in 1..Len(unidos) : unidos[i][2] = "ended" /\ unidos[j][2] = "timeout"

(***************************************************************************)
(* C19: a sweep puts a pending frame on the outbound queue again only when *)
(* now - timestamp > TIMEOUT and retries < MAX_RETRIES; it then sets the   *)
(* timestamp to now, adds exactly 1 to retries and puts exactly one copy   *)
(* of the same frame; an entry whose timeout has not elapsed is left as it *)
(* was.                                                                    *)
(***************************************************************************)
Copias(frame) == Count(Gained(cola_saliente, cola_saliente'), LAMBDA f : f = frame)

C19_SweepRetry == [][ last' = "sweep" =>
        \A i \in 1..Len(esperando_ack) :
            LET e == esperando_ack[i]
                vencida == (TimeNow - e.timestamp) > TIMEOUT
            IN
            /\ Copias(e.frame) = (IF vencida /\ e.retries < MAX_RETRIES THEN 1 ELSE 0)
            /\ vencida /\ e.retries < MAX_RETRIES =>
                  /\ e.clave \in Pendientes(esperando_ack')
                  /\ Entrada(esperando_ack', e.clave) =
                        [e EXCEPT !.timestamp = TimeNow, !.retries = e.retries + 1]
            /\ ~vencida =>
                  /\ e.clave \in Pendientes(esperando_ack')
                  /\ Entrada(esperando_ack', e.clave) = e ]_vars

\* a sweep has just retried one entry and left a younger one as it was
C19_Witness ==
    /\ last = "sweep"
    /\ \E i, j \in 1..Len(esperando_ack) :
          /\ esperando_ack[i].retries = 1 /\ esperando_ack[i].timestamp = TimeNow
          /\ esperando_ack[j].retries = 0 /\ esperando_ack[j].timestamp < TimeNow
    /\ \E i \in 1..Len(cola_saliente) : cola_saliente[i].msg_type \in {"MSG", "FILE"}

(***************************************************************************)
(* C20: registrar_mensaje on a key that is already pending returns false   *)
(* and changes nothing: the entry keeps its frame, timestamp and retry     *)
(* count, and no frame is put on the outbound queue.                       *)
(***************************************************************************)
C20_Collision == [][ /\ llamada'.fn = "registrar_mensaje"
        /\ llamada'.clave \in Pendientes(esperando_ack)
        => /\ ~llamada'.ret
           /\ esperando_ack' = esperando_ack
           /\ cola_saliente' = cola_saliente ]_vars

\* a registration has just been refused on a key whose entry was already retried
C20_Witness ==
    /\ last = "register"
    /\ llamada.fn = "registrar_mensaje" /\ ~llamada.ret
    /\ llamada.clave \in Pendientes(esperando_ack)
    /\ Entrada(esperando_ack, llamada.clave).retries >= 1

(***************************************************************************)
(* C16: for every frame F that can be constructed and encoded,             *)
(* from_bytes(to_bytes(F)) is a frame equal to F in all its fields: both   *)
(* MACs, type, transfer_id, fragment_no, total_frags and payload.          *)
(***************************************************************************)
C16_RoundTrip ==
    last = "decode" /\ cod_bit < 0 =>
        /\ cod_result.err = "none"
        /\ cod_result.frame = cod_frame

EthertypeBits == (8 * 12)..(8 * 14 - 1)
PayloadLenBits == (8 * 21)..(8 * 23 - 1)

C14_SameBytes == [][ last' = "send" /\ cola_saliente # <<>> =>
        LET f == Head(cola_saliente)
            k == Clave(f)
        IN
        /\ recibido'.err = "none"
        /\ recibido'.frame = EnLinea(f)
        /\ primero[k] # <<>> => escrito' = primero[k]
        /\ k \in Pendientes(esperando_ack) =>
              /\ Unpack16(escrito', 16) = k[1]
              /\ recibido'.frame = EnLinea(Entrada(esperando_ack, k).frame) ]_vars

\* the third retransmission of a pending frame has just been written
C14_Witness ==
    /\ last = "send"
    /\ \E i \in 1..Len(esperando_ack) :
          /\ esperando_ack[i].retries = MAX_RETRIES
          /\ puestos[esperando_ack[i].clave] = MAX_RETRIES + 1
          /\ \A j \in 1..Len(cola_saliente) : Clave(cola_saliente[j]) # esperando_ack[i].clave
          /\ escrito = primero[esperando_ack[i].clave]
          /\ escrito = to_bytes(EnLinea(esperando_ack[i].frame)).bytes

(***************************************************************************)
(* C18: the socket is closed at most once: close() on a wrapper that is    *)
(* already closed does nothing; once close() has run, every send_frame and *)
(* receive_frame ends with ConnectionError and transmits nothing, also     *)
(* when the caller obtained the socket reference before close() ran.       *)
(***************************************************************************)
ConnectionErrors == {NoCreado, ErrorEnviando, ErrorDeEnvio, ErrorRecibiendo}

C18_Closed == [][
        /\ n_close' <= 1
        /\ last' = "close" /\ ~my_socket =>
              UNCHANGED <<my_socket, sock_fd, n_close, tx_pc, rx_pc, tx_out, rx_out, n_tx>>
        /\ last' = "tx" /\ ~my_socket =>
              tx_pc' = "idle" /\ tx_out' \in ConnectionErrors /\ n_tx' = n_tx
        /\ last' = "rx" /\ ~my_socket =>
              rx_pc' = "idle" /\ rx_out' \in ConnectionErrors /\ n_tx' = n_tx ]_vars

\* close() was called twice; a send that held the reference and a receive that
\* was waiting in s.recv when the socket was closed have both ended
C18_Witness ==
    /\ ~my_socket /\ n_close_calls = 2 /\ n_close = 1
    /\ tx_pc = "idle" /\ tx_out = ErrorEnviando
    /\ rx_pc = "idle" /\ rx_out = ErrorRecibiendo
    /\ n_tx >= 1

(***************************************************************************)
(* C15: start_transfer on a file of S bytes emits exactly                  *)
(* total_frags = max(1, ceil(S / 1400)) FILE frames, numbered              *)
(* 1..total_frags in increasing order, all with the same transfer_id and   *)
(* the same total_frags, for every S >= 0, the empty file included.        *)
(***************************************************************************)
C15_FragmentCount ==
    fs_pc = "done" =>
        LET total == Max(1, (fs_filesize + 1399) \div 1400) IN
        /\ Len(fs_emitidos) = total
        /\ \A i \in 1..Len(fs_emitidos) :
              /\ fs_emitidos[i].msg_type = "FILE"
              /\ fs_emitidos[i].fragment_no = i
              /\ fs_emitidos[i].transfer_id = fs_transfer_id
              /\ fs_emitidos[i].total_frags = total

(***************************************************************************)
(* C21: handle_ack puts a "transfer completed" notification on the         *)
(* notification queue exactly when the entry it removes holds a FILE frame *)
(* and the acknowledged fragment_no equals that frame's total_frags; an    *)
(* ACK for an entry of another type, for a fragment that is not the last,  *)
(* or for a key that is not pending leaves the notification queue as it    *)
(* was.                                                                    *)
(***************************************************************************)
C21_Completed == [][ llamada'.fn = "handle_ack" =>
        LET k == llamada'.clave IN
        IF /\ k \in Pendientes(esperando_ack)
           /\ Entrada(esperando_ack, k).frame.msg_type = "FILE"
           /\ k[2] = Entrada(esperando_ack, k).frame.total_frags
        THEN cola_notificaciones' =
                Append(cola_notificaciones, NotaCompletada(k[1], Entrada(esperando_ack, k).descripcion))
        ELSE cola_notificaciones' = cola_notificaciones ]_vars

\* the last fragment of the two-fragment transfer has just been acknowledged
\* and reported, after the first one was acknowledged without a report
C21_Witness ==
    /\ llamada = Llamada("handle_ack", <<TID, 2>>, TRUE)
    /\ cola_notificaciones = <<NotaCompletada(TID, "f2")>>
    /\ <<TID, 1>> \notin Pendientes(esperando_ack)
    /\ <<TID, 0>> \in Pendientes(esperando_ack)

(***************************************************************************)
(* C22: registration is atomic with respect to the sweeper and to ACK      *)
(* handling.  The insertion of the entry and the put of its frame happen   *)
(* inside one critical section of the application's thread; whenever the   *)
(* router or the sweeper is inside the lock, every entry of the table has  *)
(* had its frame put on the outbound queue since its registration; when    *)
(* the lock is free no update is lost (a pending key is in the table with  *)
(* puts = retries + 1, an acknowledged or failed key is not, and the size  *)
(* of the table is registrations - acknowledgements - exhaustions); and a  *)
(* registered frame is put on the outbound queue only while its key is in  *)
(* the table.                                                              *)
(***************************************************************************)
C22_Atomic == [][
        /\ reg_pc' \in {"insert", "put"} => lock_owner' = "app"
        /\ ack_pc' = "del" => lock_owner' = "router"
        /\ sw_pc' \in {"scan", "delete"} => lock_owner' = "sweeper"
        /\ lock_owner' \in {"router", "sweeper"} =>
              \A k \in Pendientes(esperando_ack') : puestos'[k] >= 1
        /\ lock_owner' = "none" =>
              /\ Len(esperando_ack') = n_reg' - n_ack' - n_exp'
              /\ \A k \in Claves :
                    IF resultado'[k] = "pending"
                    THEN /\ k \in Pendientes(esperando_ack')
                         /\ puestos'[k] = Entrada(esperando_ack', k).retries + 1
                    ELSE k \notin Pendientes(esperando_ack')
        /\ \A i \in 1..Len(Gained(cola_saliente, cola_saliente')) :
              LET f == Gained(cola_saliente, cola_saliente')[i] IN
              /\ Clave(f) \in Pendientes(esperando_ack)
              /\ Entrada(esperando_ack, Clave(f)).frame = f
              /\ resultado[Clave(f)] = "pending" ]_vars

\* a registration is between its insertion and its put while the sweeper, awake,
\* waits for the lock; another entry has already been retried
C22_Witness ==
    /\ reg_pc = "put" /\ lock_owner = "app"
    /\ sw_pc = "acquire"
    /\ Clave(reg_in[1]) \in Pendientes(esperando_ack)
    /\ puestos[Clave(reg_in[1])] = 0
    /\ \E i \in 1..Len(esperando_ack) : esperando_ack[i].retries >= 1

(***************************************************************************)
(* C23: for each FILE frame the router takes from the inbound queue it     *)
(* puts exactly one CTRL frame file_ack|transfer_id|fragment_no, addressed *)
(* to the frame's source, on the outbound queue if and only if the frame's *)
(* dst is the local MAC; it never registers that ACK in the pending table; *)
(* and it hands the fragment to the assembler's queue whether or not dst   *)
(* is local.                                                               *)
(***************************************************************************)
C23_FileAck == [][ last' = "route" /\ cola_entrante # <<>> /\ Head(cola_entrante).msg_type = "FILE" =>
        LET f == Head(cola_entrante)
            puts == Gained(cola_saliente, cola_saliente')
        IN
        /\ IF f.mac_dst = MY_MAC
           THEN /\ Len(puts) = 1 /\ Len(cola_saliente') = Len(cola_saliente) + 1
                /\ puts[1].msg_type = "CTRL"
                /\ puts[1].mac_dst = f.mac_src
                /\ puts[1].mac_src = MY_MAC
                /\ puts[1].data = <<"file_ack", Texto(f.transfer_id), Texto(f.fragment_no)>>
           ELSE cola_saliente' = cola_saliente
        /\ esperando_ack' = esperando_ack
        /\ fragment_queue' = Append(fragment_queue, f) ]_vars

\* a fragment for this host was acknowledged and handed on, and then a broadcast
\* fragment was handed on without an acknowledgement
C23_Witness ==
    /\ last = "route"
    /\ Len(fragment_queue) = 2
    /\ fragment_queue[1].mac_dst = MY_MAC
    /\ fragment_queue[2].mac_dst = BROADCAST_MAC
    /\ Len(cola_saliente) = 1
    /\ cola_saliente[1].data = <<"file_ack", "7", "1">>
    /\ cola_saliente[1].mac_dst = MAC_B
    /\ esperando_ack = <<>>

(***************************************************************************)
(* C24: the listener puts a received frame on the inbound queue if and     *)
(* only if the buffer decodes successfully and the frame's dst MAC is the  *)
(* local MAC or the broadcast MAC.  A frame for another destination and a  *)
(* buffer that does not decode are dropped: no queue, table or flag        *)
(* changes, and the listener goes back to its loop, still running.         *)
(***************************************************************************)
\* the buffers of RawInputs that are the encoding, padded or not, of a frame
\* addressed to this host or to all, each with that frame
Buenos ==
    { <<Encoded(f), f>> : f \in { g \in ListenFrames : g.mac_dst \in {MY_MAC, BROADCAST_MAC} } }
    \cup { <<Encoded(Frame(MY_MAC, MAC_B, "MSG", TID, 1, 1, <<"h">>)) \o <<0, 0>>,
             Frame(MY_MAC, MAC_B, "MSG", TID, 1, 1, <<"h">>)>> }

C24_Filter == [][ last' = "listener" /\ hear_pc = "call" /\ rx_out = "data" =>
        LET ok == /\ hear_dec'.err = "none"
                  /\ hear_dec'.frame.mac_dst \in {Chars(MY_MAC), Chars(BROADCAST_MAC)}
        IN
        /\ ok <=> \E p \in Buenos : p[1] = hear_raw'
        /\ ok => \E p \in Buenos : p[1] = hear_raw' /\ cola_entrante' = Append(cola_entrante, p[2])
        /\ ~ok => UNCHANGED <<cola_entrante, app_msg_queue, fragment_queue, ackVars, asmVars, presVars,
                              my_socket, sock_fd>>
        /\ corriendo' = corriendo /\ vivos' = vivos
        /\ corriendo'["listener"] /\ hear_pc' = "loop" ]_vars

\* a frame for this host has reached the application queue, and the buffer received after it,
\* the encoding of a frame for another host, was dropped
C24_Witness ==
    /\ last = "listener" /\ hear_pc = "loop"
    /\ hear_raw = Encoded(Frame(MAC_C, MAC_B, "MSG", TID, 1, 1, <<"h">>))
    /\ hear_dec.err = "none"
    /\ cola_entrante = <<>>
    /\ app_msg_queue = <<Frame(MY_MAC, MAC_B, "MSG", TID, 1, 1, <<"h">>)>>
    /\ corriendo["listener"]

(***************************************************************************)
(* C25: a receive timeout never ends the listener; a receive error other   *)
(* than a timeout ends the listener, and the engine then tears down: it    *)
(* stops running, the workers' flags are cleared and the socket is closed. *)
(***************************************************************************)
Desmontado == ~app_running /\ ~my_socket /\ \A w \in Workers : ~corriendo[w]

C25_Teardown ==
    /\ [][ last' = "listener" /\ hear_pc = "call" /\ rx_out = "timeout" =>
              corriendo'["listener"] /\ "listener" \in vivos' /\ hear_pc' = "loop" ]_vars
    /\ [][ last' = "listener" /\ hear_pc = "call" /\ rx_out \notin {"data", "timeout"} =>
              ~corriendo'["listener"] ]_vars
    /\ (~corriendo["listener"] ~> "listener" \notin vivos)
    /\ ("listener" \notin vivos ~> Desmontado)

(***************************************************************************)
(* C26: beacon ingestion.  A BROADCAST payload <user>|online sets the      *)
(* peer-table entry of the frame's source MAC to user, last_seen = now,    *)
(* status online, and leaves every other entry as it was; <user>|offline   *)
(* removes the entry of the source MAC and no other; a payload that does   *)
(* not split on "|" into exactly two fields, or whose status is neither    *)
(* value, leaves the peer table unchanged.                                 *)
(***************************************************************************)
C26_Beacon == [][ \A f \in BeaconInputs : RouteBeacon(f) =>
        LET p == f.data
            m == f.mac_src
        IN
        IF Len(p) = 2 /\ p[2] = "online"
        THEN /\ DOMAIN peers' = DOMAIN peers \cup {m}
             /\ peers'[m] = [username |-> p[1], last_seen |-> TimeNow, status |-> "online"]
             /\ \A n \in DOMAIN peers \ {m} : peers'[n] = peers[n]
        ELSE IF Len(p) = 2 /\ p[2] = "offline"
        THEN /\ DOMAIN peers' = DOMAIN peers \ {m}
             /\ \A n \in DOMAIN peers \ {m} : peers'[n] = peers[n]
        ELSE peers' = peers ]_vars

\* an online beacon has just renamed a peer that was in the table, next to an
\* older entry of another peer
C26_Witness ==
    /\ last = "beacon" /\ llamada.ret
    /\ DOMAIN peers = {MAC_B, MAC_C}
    /\ peers[MAC_B] = [username |-> "v", last_seen |-> TimeNow, status |-> "online"]
    /\ peers[MAC_C].username = "u" /\ peers[MAC_C].last_seen < TimeNow

(***************************************************************************)
(* C27: while the presence worker runs, a peer in the table is eventually  *)
(* removed from it unless a new online beacon of it arrives; and the       *)
(* cleanup of the loop removes exactly the peers with                      *)
(* now - last_seen > PEER_TIMEOUT, leaving every peer seen more recently   *)
(* as it was.                                                              *)
(***************************************************************************)
C27_Expiry ==
    /\ \A m \in Peers :
          (m \in DOMAIN peers) ~> (m \notin DOMAIN peers \/ (last = "beacon" /\ vigente[m] = 0))
    /\ [][ last' = "hello" =>
              IF (TimeNow - om_last_cleanup) > OM_CLEANUP_INTERVAL
              THEN /\ DOMAIN peers' = { m \in DOMAIN peers : ~((TimeNow - peers[m].last_seen) > PEER_TIMEOUT) }
                   /\ \A m \in DOMAIN peers' : peers'[m] = peers[m]
              ELSE peers' = peers ]_vars

\* a cleanup has just removed a peer that fell silent and kept one seen since
C27_Witness ==
    /\ last = "hello" /\ om_last_cleanup = TimeNow
    /\ \E m \in Peers : vigente[m] > PEER_TIMEOUT /\ m \notin DOMAIN peers
    /\ \E n \in DOMAIN peers : (TimeNow - peers[n].last_seen) <= PEER_TIMEOUT /\ peers[n].last_seen < TimeNow

(***************************************************************************)
(* C28: once shutdown has called stop() on every worker, each of the six   *)
(* workers leaves its loop and its thread ends, with no further input:     *)
(* the router too, whose stop() puts no sentinel on the inbound queue.     *)
(***************************************************************************)
C28_Terminate == (senalados = Orden) ~> (vivos = {})

\* the six threads have ended after the shutdown signalled them; the router was
\* never handed a sentinel, and the frames heard were routed
C28_Witness ==
    /\ senalados = Orden /\ vivos = {}
    /\ oidos = MaxHeard /\ cola_entrante = <<>>
    /\ fragment_queue = <<>>

(***************************************************************************)
(* C29: a fragment the assembler rejects leaves the table of active        *)
(* transfers as it was: a fragment with fragment_no # 1 of an unknown      *)
(* transfer creates no entry, and a fragment of a known transfer whose     *)
(* total_frags differs from the recorded one is not recorded and does not  *)
(* refresh last_seen.  No file is written either.  As a formula: a step of *)
(* _process_fragment leaves the table and the files as they were and       *)
(* answers False, or it is the step of no fragment of these two kinds.     *)
(***************************************************************************)
C29_Rejected == [][ last' = "frag" =>
        \/ /\ active_transfers' = active_transfers
           /\ files' = files
           /\ llamada'.ret = FALSE
        \/ \A f \in AsmInputs, io \in BOOLEAN :
              ~ /\ \/ f.transfer_id \notin DOMAIN active_transfers /\ f.fragment_no # 1
                   \/ /\ f.transfer_id \in DOMAIN active_transfers
                      /\ active_transfers[f.transfer_id].total_frags # f.total_frags
                /\ AsmProcess(f, io) ]_vars

\* a fragment has just been refused for a transfer whose last recorded fragment is older
C29_Witness ==
    /\ last = "frag" /\ llamada.ret = FALSE
    /\ TID \in DOMAIN active_transfers
    /\ active_transfers[TID].last_seen < TimeNow
    /\ files = <<>>

(***************************************************************************)
(* C30: while a transfer is active, a fragment whose number is already     *)
(* recorded is ignored: the payload recorded for that index stays the      *)
(* first one received, the number of recorded fragments does not change,   *)
(* and the table keeps its single entry for the transfer.  As a formula: a *)
(* step of _process_fragment leaves the table and the files as they were,  *)
(* or it is the step of no fragment whose number is recorded.              *)
(***************************************************************************)
C30_Duplicate == [][ last' = "frag" =>
        \/ /\ active_transfers' = active_transfers
           /\ files' = files
        \/ \A f \in AsmInputs, io \in BOOLEAN :
              ~ /\ f.transfer_id \in DOMAIN active_transfers
                /\ f.fragment_no \in DOMAIN active_transfers[f.transfer_id].fragments
                /\ AsmProcess(f, io) ]_vars

\* a recorded fragment has just arrived again, some time after the transfer's last new
\* fragment, and was answered True
C30_Witness ==
    /\ last = "frag" /\ llamada.ret = TRUE
    /\ TID \in DOMAIN active_transfers
    /\ active_transfers[TID].last_seen < TimeNow
    /\ Cardinality(DOMAIN active_transfers[TID].fragments) < active_transfers[TID].total_frags

\* the fragment is one that takes _process_fragment to _assemble_file: the only
\* fragment of a new transfer, or the one that brings the recorded fragments
\* of an active transfer to total_frags
Ensambla(frame) ==
    LET tid == frame.transfer_id IN
    IF tid \notin DOMAIN active_transfers
    THEN /\ frame.fragment_no = 1
         /\ IndexOf(frame.data, "|") # 0
         /\ Strip(SubSeq(frame.data, 1, IndexOf(frame.data, "|") - 1)) # <<>>
         /\ frame.total_frags = 1
    ELSE /\ active_transfers[tid].total_frags = frame.total_frags
         /\ frame.fragment_no \notin DOMAIN active_transfers[tid].fragments
         /\ Cardinality(DOMAIN active_transfers[tid].fragments) + 1 = frame.total_frags

(***************************************************************************)
(* C31: when _assemble_file fails, because an index of 1..total_frags is   *)
(* missing or because the file cannot be written, the transfer is          *)
(* discarded: its entry is no longer in the table of active transfers and  *)
(* the download directory holds no file it did not hold before.            *)
(***************************************************************************)
C31_Discarded == [][ (last' = "frag" /\ llamada'.ret = FALSE) =>
        \/ /\ TID \notin DOMAIN active_transfers'
           /\ files' = files
        \/ \A f \in AsmInputs, io \in BOOLEAN :
              ~ /\ Ensambla(f)
                /\ AsmProcess(f, io) ]_vars

(***************************************************************************)
(* The assembler's loop under traffic (FileAssemblerManagerThread.run).    *)
(* The router keeps putting fragments on fragment_queue; the loop takes    *)
(* one per iteration and reaches the cleanup only in its handler of        *)
(* queue.Empty, that is when fragment_queue.get(timeout=1.0) has found the *)
(* queue empty for a second.  Time passes in steps of AsmTickStep seconds: *)
(* while the queue holds fragments the loop is busy, and when the queue is *)
(* empty the get called in that time ends with queue.Empty.                *)
(***************************************************************************)
TID2 == 8
MaxFragQueue == 2    \* fragments on fragment_queue

Tids == {TID, TID2}

\* the first fragment of a two-fragment file, for either transfer
LiveInputs == { Frame(MY_MAC, MAC_B, "FILE", t, 1, 2, <<"a", "|", "x">>) : t \in Tids }

\* RouterThread.run: a FILE frame is handed to the assembler; the sender of transfer
\* TID falls silent after its first fragment, the traffic of the other transfer goes on
LiveArrive(frame) ==
    /\ Len(fragment_queue) < MaxFragQueue
    /\ frame.transfer_id = TID =>
          /\ TID \notin DOMAIN active_transfers
          /\ \A i \in 1..Len(fragment_queue) : fragment_queue[i].transfer_id # TID
    /\ fragment_queue' = Append(fragment_queue, frame)
    /\ last' = "arrive"
    /\ llamada' = NoLlamada
    /\ UNCHANGED <<ackVars, asmVars, ackHist, presVars, presHist, corriendo, app_running, stop_pc,
                   vivos, sender_pc, my_socket, join_slept, stopHist, tardios>>

\* time passes while the loop has fragments to take
LiveBusy ==
    /\ fragment_queue # <<>>
    /\ AsmTick(AsmTickStep)
    /\ AsmRest

\* time passes on the empty queue: the get ends with queue.Empty and the handler runs
LiveWait ==
    /\ fragment_queue = <<>>
    /\ LET tabla == [t \in DOMAIN active_transfers |->
                       [active_transfers[t] EXCEPT !.last_seen = Shift(@, AsmTickStep, ASM_TIMEOUT)]]
           visto == Shift(asm_last_cleanup, AsmTickStep, ASM_CLEANUP_INTERVAL)
       IN IF (TimeNow - visto) > ASM_CLEANUP_INTERVAL
          THEN /\ active_transfers' = cleanup_timed_out_transfers(tabla, TimeNow)
               /\ asm_last_cleanup' = TimeNow
          ELSE /\ active_transfers' = tabla
               /\ asm_last_cleanup' = visto
    /\ last' = "wait"
    /\ llamada' = NoLlamada
    /\ UNCHANGED files
    /\ AsmRest

LiveLoop == (\E io \in BOOLEAN : HaltAsm(io)) /\ HaltRest

NextAsmLive ==
    \/ \E f \in LiveInputs : LiveArrive(f)
    \/ LiveLoop
    \/ LiveBusy
    \/ LiveWait

\* the assembler's thread is scheduled and time passes; nothing is assumed of the traffic
SpecAsmLive == Init /\ [][NextAsmLive]_vars /\ WF_vars(LiveLoop) /\ WF_vars(LiveBusy \/ LiveWait)

Caduca(t) == t \in DOMAIN active_transfers /\ (TimeNow - active_transfers[t].last_seen) > ASM_TIMEOUT

(***************************************************************************)
(* C32: while the assembler runs, an active transfer whose last_seen is    *)
(* more than TRANSFER_TIMEOUT = 120 s old is removed from the table in the *)
(* end (or has received a new fragment), whatever fragments keep arriving  *)
(* for other transfers.  Here the transfer is TID and the traffic is that  *)
(* of TID2.                                                                *)
(***************************************************************************)
C32_Dropped == Caduca(TID) ~> ~Caduca(TID)

(***************************************************************************)
(* C33: when start_transfer has returned, in reliable mode every key       *)
(* (transfer_id, fragment_no) with fragment_no in 1..total_frags is in the *)
(* pending table (nothing acknowledges a fragment in this specification),  *)
(* each registered by the transfer; in unreliable mode the fragments       *)
(* 1..total_frags were put on the outbound queue and the pending table is  *)
(* as it was before the call, that is empty.                               *)
(***************************************************************************)
C33_Registered ==
    fs_pc = "done" =>
        IF fs_reliable
        THEN /\ \A n \in 1..fs_total_frags : <<fs_transfer_id, n>> \in Pendientes(esperando_ack)
             /\ Len(esperando_ack) = fs_total_frags
        ELSE /\ { fs_emitidos[i].fragment_no : i \in 1..Len(fs_emitidos) } = 1..fs_total_frags
             /\ esperando_ack = <<>>

\* the parts of the frame invariant that from_bytes tests on the bytes it accepted
BienFormado(raw, F) ==
    LET payload_len == Unpack16(raw, 22) IN
    /\ Unpack16(raw, 13) = ETHERTYPE
    /\ crc32(SubSeq(raw, 1, HEADER_SIZE + payload_len))
          = SubSeq(raw, HEADER_SIZE + payload_len + 1, HEADER_SIZE + payload_len + CRC_SIZE)
    /\ F.msg_type \in TYPE_MAP
    /\ Len(F.data) = payload_len

(***************************************************************************)
(* C34: a frame that from_bytes returns satisfies the frame invariants:    *)
(* the ethertype of the bytes is 0x88B5, their CRC matches, the type is    *)
(* one of the five, the payload has payload_len bytes and fragment_no lies *)
(* in 1..total_frags.                                                      *)
(***************************************************************************)
C34_Accepted ==
    (last = "decode" /\ cod_result.err = "none") =>
        /\ BienFormado(cod_raw, cod_result.frame)
        /\ 1 <= cod_result.frame.fragment_no
        /\ cod_result.frame.fragment_no <= cod_result.frame.total_frags

(***************************************************************************)
(* The transfer-ID allocator (AckManagerThread.get_next_transfer_id)       *)
(* called by several threads.  The run starts with the counter at its      *)
(* value of construction or at a value just below the wrap, which the      *)
(* counter takes after that many allocations.                              *)
(***************************************************************************)
MaxAlloc == 6        \* calls of get_next_transfer_id in one run

AllocStarts == {TID - 1, 65536 - 3}

InitAlloc == InitResto /\ next_transfer_id \in AllocStarts

\* the calls made so far
Llamadas == Len(ids) + Cardinality({ c \in Callers : alloc_pc[c] # "idle" })

\* a thread calls get_next_transfer_id and arrives at `with self._lock`
AllocCall(c) ==
    /\ alloc_pc[c] = "idle"
    /\ Llamadas < MaxAlloc
    /\ alloc_pc' = [alloc_pc EXCEPT ![c] = "wait"]
    /\ UNCHANGED <<lock_owner, next_transfer_id, ids>>

\* the lock is taken
AllocEnter(c) ==
    /\ alloc_pc[c] = "wait" /\ PuedeTomar
    /\ lock_owner' = c
    /\ alloc_pc' = [alloc_pc EXCEPT ![c] = "incr"]
    /\ UNCHANGED <<next_transfer_id, ids>>

\* self._next_transfer_id = (self._next_transfer_id + 1) & 0xFFFF
AllocIncr(c) ==
    /\ alloc_pc[c] = "incr"
    /\ next_transfer_id' = get_next_transfer_id(next_transfer_id)
    /\ alloc_pc' = [alloc_pc EXCEPT ![c] = "ret"]
    /\ UNCHANGED <<lock_owner, ids>>

\* return self._next_transfer_id, and the lock is released
AllocReturn(c) ==
    /\ alloc_pc[c] = "ret"
    /\ ids' = Append(ids, next_transfer_id)
    /\ lock_owner' = "none"
    /\ alloc_pc' = [alloc_pc EXCEPT ![c] = "idle"]
    /\ UNCHANGED next_transfer_id

AllocRest ==
    /\ last' = "alloc"
    /\ llamada' = NoLlamada
    /\ UNCHANGED <<ackVars, asmVars, ackHist, presVars, presHist, corriendo, stopVars, stopHist, codVars,
                   wireVars, sockVars, sockHist, fs_pc, fs_transfer_id, fs_filesize, fs_total_frags,
                   fs_reliable, fs_fragment_no, fs_pos, fs_emitidos, reg_pc, reg_in, ack_pc, ack_clave,
                   sw_pc, sw_i, sw_expired, routeVars, listenVars, haltVars, e2eVars, omVars>>

NextAlloc ==
    \/ \E c \in Callers : AllocCall(c) /\ AllocRest
    \/ \E c \in Callers : AllocEnter(c) /\ AllocRest
    \/ \E c \in Callers : AllocIncr(c) /\ AllocRest
    \/ \E c \in Callers : AllocReturn(c) /\ AllocRest

SpecAlloc == InitAlloc /\ [][NextAlloc]_vars

(***************************************************************************)
(* C35: the values the allocator returns, in the order of the returns and  *)
(* whichever threads called, are consecutive modulo 65536, all lie in      *)
(* 0..65535 and are pairwise different (the run has fewer than 65536       *)
(* calls); once no call is in progress the last value returned is the      *)
(* counter.                                                                *)
(***************************************************************************)
C35_Consecutive ==
    /\ \A i \in 1..Len(ids) : 0 <= ids[i] /\ ids[i] <= 65535
    /\ \A i \in 2..Len(ids) : ids[i] = (ids[i - 1] + 1) % 65536
    /\ \A i, j \in 1..Len(ids) : i # j => ids[i] # ids[j]
    /\ (ids # <<>> /\ \A c \in Callers : alloc_pc[c] \in {"idle", "wait"}) => ids[Len(ids)] = next_transfer_id

\* both threads have called; the values returned have passed the wrap from 65535 to 0
C35_Witness ==
    /\ Len(ids) >= 4
    /\ \E i \in 1..(Len(ids) - 1) : ids[i] = 65535 /\ ids[i + 1] = 0
    /\ alloc_pc["app"] = "wait" /\ alloc_pc["gui"] = "ret"

(***************************************************************************)
(* A reliable transfer from end to end.  The sending host (MY_MAC) runs    *)
(* start_transfer, the retry manager and the sender thread; the receiving  *)
(* host (MAC_B) runs the listener, the router and the assembler, and its   *)
(* variables here are cola_entrante, fragment_queue, active_transfers and  *)
(* files.  A frame the sender thread writes is lost on the link or reaches *)
(* the receiver's inbound queue.  The file_ack the receiver's router       *)
(* queues travels through the receiver's outbound queue, the link and the  *)
(* sender host's listener, all first-in first-out: acuses holds the acks   *)
(* on that way, and one of them may be lost.                               *)
(***************************************************************************)
\* the two fragments start_transfer builds for the file "a" with content xy
Fragmento(n) ==
    IF n = 1 THEN build_file(TID, <<"a", "|", "x">>, 1, MAC_B, 2)
    ELSE build_file(TID, <<"y">>, 2, MAC_B, 2)

TotalE2E == 2

\* start_transfer, reliable: one iteration of the loop over the fragments
E2ERegister ==
    /\ registrados < TotalE2E
    /\ Len(cola_saliente) < MaxQueue
    /\ registrar_mensaje(Fragmento(registrados + 1), "fragmento")
    /\ registrados' = registrados + 1
    /\ last' = "register"
    /\ UNCHANGED <<cola_notificaciones, sweep_slept, asmVars, cola_entrante, fragment_queue, acuses,
                   acusados, fracasos, completadas>>

\* SendingThread.run on the sending host writes a frame; the receiver's listener puts it
\* on its inbound queue unless the link lost it
E2ESend(lost) ==
    /\ Send
    /\ IF lost THEN UNCHANGED cola_entrante
       ELSE /\ Len(cola_entrante) < MaxIn
            /\ cola_entrante' = Append(cola_entrante, Head(cola_saliente))
    /\ UNCHANGED <<asmVars, fragment_queue, e2eVars>>

\* RouterThread.run on the receiving host: a FILE frame for this host is acknowledged
\* and handed to the assembler
E2ERoute ==
    /\ cola_entrante # <<>>
    /\ Len(acuses) < MaxQueue
    /\ Len(fragment_queue) < MaxQueue
    /\ cola_entrante' = Tail(cola_entrante)
    /\ LET frame == Head(cola_entrante) IN
       /\ acuses' = IF frame.mac_dst = MAC_B
                    THEN Append(acuses, Ctrl(MAC_B, <<"file_ack", Texto(frame.transfer_id),
                                                      Texto(frame.fragment_no)>>))
                    ELSE acuses
       /\ fragment_queue' = Append(fragment_queue, frame)
    /\ last' = "route"
    /\ llamada' = NoLlamada
    /\ UNCHANGED <<ackVars, asmVars, registrados, acusados, fracasos, completadas>>

\* FileAssemblerManagerThread.run on the receiving host
E2EAsm ==
    /\ fragment_queue # <<>>
    /\ fragment_queue' = Tail(fragment_queue)
    /\ AsmProcess(Head(fragment_queue), TRUE)
    /\ UNCHANGED <<ackVars, cola_entrante, e2eVars>>

\* the notifications a step has put on the notification queue
Notas(q, q2) == { Gained(q, q2)[i] : i \in 1..Len(Gained(q, q2)) }

\* the ack reaches the sending host's router, or was lost
E2EAck(lost) ==
    /\ acuses # <<>>
    /\ acuses' = Tail(acuses)
    /\ IF lost
       THEN /\ last' = "lost"
            /\ llamada' = NoLlamada
            /\ UNCHANGED <<ackVars, acusados, completadas>>
       ELSE /\ RouteCtrl(Head(acuses))
            /\ acusados' = IF llamada'.ret THEN acusados \cup {llamada'.clave} ELSE acusados
            /\ completadas' = completadas \cup { n.id : n \in { m \in Notas(cola_notificaciones, cola_notificaciones') :
                                                                 m.tipo = "completada" } }
    /\ UNCHANGED <<asmVars, cola_entrante, fragment_queue, registrados, fracasos>>

\* the sweeper of the sending host
E2ESweep ==
    /\ Sweep
    /\ fracasos' = fracasos + Len(SelectSeq(esperando_ack, LAMBDA e : Agotada(e, TimeNow)))
    /\ UNCHANGED <<asmVars, cola_entrante, fragment_queue, acuses, registrados, acusados, completadas>>

E2EIdle == UNCHANGED <<asmVars, cola_entrante, fragment_queue, e2eVars>>

E2ERest ==
    UNCHANGED <<ackHist, presVars, presHist, corriendo, app_running, stop_pc, vivos, sender_pc, my_socket,
                join_slept, stopHist, codVars, wireVars, sockVars, sockHist, fsVars, lockVars,
                app_msg_queue, listenVars, haltVars, allocVars, omVars>>

NextE2E ==
    \/ E2ERegister /\ E2ERest
    \/ \E lost \in BOOLEAN : E2ESend(lost) /\ E2ERest
    \/ E2ERoute /\ E2ERest
    \/ E2EAsm /\ E2ERest
    \/ \E lost \in BOOLEAN : E2EAck(lost) /\ E2ERest
    \/ E2ESweep /\ E2ERest
    \/ Consume /\ E2EIdle /\ E2ERest
    \/ Tick(TickStep) /\ E2EIdle /\ E2ERest

SpecE2E == Init /\ [][NextE2E]_vars

\* every fragment was registered and acknowledged, no failure was notified, and nothing
\* is left in a queue or on the link
Acusado ==
    /\ registrados = TotalE2E
    /\ acusados = { <<TID, n>> : n \in 1..TotalE2E }
    /\ esperando_ack = <<>>
    /\ fracasos = 0
    /\ cola_saliente = <<>> /\ cola_entrante = <<>> /\ acuses = <<>> /\ fragment_queue = <<>>

(***************************************************************************)
(* C36: when every fragment of a reliable transfer has been acknowledged   *)
(* to the sender, with no key of the transfer pending, no failure notified *)
(* and no frame left under way, the receiver's assembler has assembled the *)
(* file from all the fragments: the download directory holds the file with *)
(* the bytes of fragments 1 and 2, and the transfer has left the table.    *)
(***************************************************************************)
C36_EndToEnd ==
    Acusado =>
        /\ \E path \in DOMAIN files : files[path] = <<"x", "y">>
        /\ TID \notin DOMAIN active_transfers

\* the transfers with a key in the pending table
EnCurso(tabla) == { tabla[i].clave[1] : i \in 1..Len(tabla) }

(***************************************************************************)
(* C37: when the retry manager notifies "transfer completed" for a         *)
(* transfer_id, the pending table holds no key of that transfer after the  *)
(* step, and from then on no failure notification is emitted for it (the   *)
(* transfer of this specification is the only one, so any failure          *)
(* notification is one of its fragments).                                  *)
(***************************************************************************)
C37_Completed == [][
        /\ \A n \in Notas(cola_notificaciones, cola_notificaciones') :
              n.tipo = "completada" => n.id \notin EnCurso(esperando_ack')
        /\ (TID \in completadas) => (fracasos' = fracasos) ]_vars

\* the failure notifications a step emits for key k
Falla(k) == fallos'[k] > fallos[k]

(***************************************************************************)
(* C38: an accepted registration has at most one terminal outcome.         *)
(* handle_ack returns True for a key only while its registration is        *)
(* pending and no failure was notified for it; a failure is notified for a *)
(* key only while its registration is pending, and once; an acknowledged   *)
(* registration has no failure notification; and handle_ack on a key that  *)
(* is not in the table returns False and changes neither the table nor the *)
(* queues.  The steps are the statements of the three threads under the    *)
(* lock.                                                                   *)
(***************************************************************************)
C38_OneOutcome == [][
        /\ \A k \in Claves :
              /\ Acked(k) => (resultado[k] = "pending" /\ fallos[k] = 0)
              /\ Falla(k) => (resultado[k] = "pending" /\ fallos[k] = 0 /\ fallos'[k] = 1)
              /\ resultado'[k] = "acked" => fallos'[k] = 0
              /\ resultado'[k] = "failed" => fallos'[k] = 1
        /\ (llamada'.fn = "handle_ack" /\ llamada'.clave \notin Pendientes(esperando_ack)) =>
              /\ llamada'.ret = FALSE
              /\ UNCHANGED <<esperando_ack, cola_saliente, cola_notificaciones>> ]_vars

\* an ACK has just arrived for a key that was given up, and was answered False; the
\* other key was acknowledged in time
C38_Witness ==
    /\ last = "route" /\ llamada.fn = "handle_ack" /\ llamada.ret = FALSE
    /\ resultado[llamada.clave] = "failed" /\ fallos[llamada.clave] = 1
    /\ \E k \in Claves : resultado[k] = "acked" /\ fallos[k] = 0

(***************************************************************************)
(* C39: when the sender worker has terminated, every frame that was put on *)
(* the outbound queue before the shutdown sentinel has been written to the *)
(* socket: no frame is left on the queue ahead of a sentinel, and the      *)
(* offline beacon App.stop queued before it signalled the sender is among  *)
(* the frames written.  The frames are written in the order of the queue   *)
(* (enviados is appended to from the head of cola_saliente).               *)
(***************************************************************************)
C39_Drained ==
    "sender" \notin vivos =>
        /\ \A j \in 1..Len(cola_saliente) :
              cola_saliente[j] = Sentinel => \A i \in 1..(j - 1) : cola_saliente[i] = Sentinel
        /\ \E i \in 1..Len(enviados) : EsBeaconOffline(enviados[i])

(***************************************************************************)
(* OnlineManager.run against OnlineManager.stop, statement by statement    *)
(***************************************************************************)
\* OnlineManager.run: time.sleep(HELLO_INTERVAL) has ended (or the thread has just
\* started), and `while self.running` is tested
OmTest ==
    /\ om_pc = "sleep"
    /\ om_slept >= HELLO_INTERVAL
    /\ om_pc' = IF corriendo["presence"] THEN "put" ELSE "ended"
    /\ vivos' = Sigue("presence", corriendo)
    /\ last' = "hello"
    /\ llamada' = NoLlamada
    /\ UNCHANGED <<ackVars, presVars, presHist, corriendo, omstop_pc>>

\* OnlineManager.run: the body of the loop up to the sleep: the online beacon is built
\* and put, and the table is cleaned when due
OmPut ==
    /\ om_pc = "put"
    /\ Len(cola_saliente) < MaxQueue
    /\ \E id \in GenIds : cola_saliente' = Append(cola_saliente, build_broadcast_online(id))
    /\ IF (TimeNow - om_last_cleanup) > OM_CLEANUP_INTERVAL
       THEN /\ peers' = cleanup_peers(peers, TimeNow)
            /\ om_last_cleanup' = TimeNow
       ELSE UNCHANGED <<peers, om_last_cleanup>>
    /\ om_slept' = 0
    /\ om_pc' = "sleep"
    /\ last' = "hello"
    /\ llamada' = NoLlamada
    /\ UNCHANGED <<esperando_ack, cola_notificaciones, sweep_slept, presHist, corriendo, vivos, omstop_pc>>

\* OnlineManager.stop: self.running = False
OmStopFlag ==
    /\ omstop_pc = "idle"
    /\ corriendo' = [corriendo EXCEPT !["presence"] = FALSE]
    /\ omstop_pc' = "put"
    /\ last' = "stop"
    /\ llamada' = NoLlamada
    /\ UNCHANGED <<ackVars, presVars, presHist, vivos, om_pc>>

\* OnlineManager.stop: the offline beacon is built and put
OmStopPut ==
    /\ omstop_pc = "put"
    /\ \E id \in GenIds : cola_saliente' = Append(cola_saliente, build_broadcast_offline(id))
    /\ omstop_pc' = "done"
    /\ last' = "stop"
    /\ llamada' = NoLlamada
    /\ UNCHANGED <<esperando_ack, cola_notificaciones, sweep_slept, presVars, presHist, corriendo, vivos,
                   om_pc>>

\* what a step of the presence manager or of its stop() leaves alone
OmRest ==
    /\ n_offline' = n_offline + Count(Gained(cola_saliente, cola_saliente'), EsBeaconOffline)
    /\ UNCHANGED <<asmVars, ackHist, app_running, stop_pc, sender_pc, fragment_queue, my_socket,
                   join_slept, senalados, unidos, enviados, codVars, wireVars, sockVars, sockHist,
                   fsVars, lockVars, routeVars, listenVars, haltVars, allocVars, e2eVars>>

NextOm ==
    \/ OmTest /\ OmRest
    \/ OmPut /\ OmRest
    \/ OmStopFlag /\ OmRest
    \/ OmStopPut /\ OmRest
    \/ \E m \in Peers : RouteBeacon(Beacon(m, <<"u", "online">>)) /\ UNCHANGED <<corriendo, vivos, omVars>> /\ OmRest
    \/ Send /\ UNCHANGED <<presVars, presHist, corriendo, vivos, omVars>> /\ OmRest
    \/ PresTick(PresTickStep) /\ UNCHANGED <<corriendo, vivos, omVars>> /\ OmRest

SpecOm == Init /\ [][NextOm]_vars

(***************************************************************************)
(* C40: once OnlineManager.stop has put its offline beacon on the outbound *)
(* queue, no step puts an online beacon on that queue, whatever the        *)
(* interleaving of stop() with the statements of the beacon loop.          *)
(***************************************************************************)
C40_Silent == [][ omstop_pc = "done" =>
        Count(Gained(cola_saliente, cola_saliente'),
              LAMBDA f : f.msg_type = "BROADCAST" /\ EsOnline(f.data)) = 0 ]_vars

====
